---- MODULE Spec2Model ----
(***************************************************************************)
(* Model of the FT1.2 link layer of baos (src/src/ft12.rs): the frame      *)
(* codec (Ft12Frame), the host-initiated transactions (send_reset,         *)
(* send_frame / group_write) and the receiver thread                       *)
(* (start_receiver_thread, read_and_ack_whole_frame, process_frame),       *)
(* running against a serial device that is free to answer, to stay silent  *)
(* and to send indications of its own.                                     *)
(***************************************************************************)
EXTENDS Integers, Sequences, FiniteSets, TLC

(***************************************************************************)
(* FT1.2 protocol constants (ft12.rs:7-14).                                *)
(***************************************************************************)
FT12_RESET_REQUEST == 16
FT12_RESET_INDICATION == 64
FT12_DATA_REQUEST == 115
FT12_DATA_CONFIRM == 243
FT12_DATA_INDICATION == 211
FT12_ACKNOWLEDGE == 229
FT12_FRAME_START == 104
FT12_FRAME_END == 22

(***************************************************************************)
(* Bounds of the model.                                                    *)
(***************************************************************************)
MaxDataLen == 2

(***************************************************************************)
(* Byte values the inputs are drawn from: the four control bytes of the    *)
(* protocol and two others; the framing bytes, the ack byte and values     *)
(* with the lowest and highest bits set as data.                           *)
(***************************************************************************)
CtrlBytes == {FT12_DATA_REQUEST, 83, FT12_DATA_CONFIRM, FT12_DATA_INDICATION, 0, 255}
DataBytes == {0, 1, FT12_FRAME_END, FT12_FRAME_START, 128, 255}

RECURSIVE SeqsUpTo(_, _)
SeqsUpTo(S, n) ==
    IF n = 0 THEN {<<>>}
    ELSE LET shorter == SeqsUpTo(S, n - 1)
         IN  shorter \cup {Append(s, b) : s \in {t \in shorter : Len(t) = n - 1}, b \in S}

RECURSIVE Pow2(_)
Pow2(k) == IF k = 0 THEN 1 ELSE 2 * Pow2(k - 1)

(* b with bit k inverted, for a byte b *)
FlipBitOf(b, k) ==
    IF (b \div Pow2(k)) % 2 = 1 THEN b - Pow2(k) ELSE b + Pow2(k)

(***************************************************************************)
(* Ft12Frame                                                               *)
(***************************************************************************)
RECURSIVE SumBytes(_)
SumBytes(s) == IF s = <<>> THEN 0 ELSE Head(s) + SumBytes(Tail(s))

(* variant: the sum truncated to seven bits *)
calculate_checksum_7bit(control, data) == (control + SumBytes(data)) % 128

(* the sum is taken in a usize and truncated to u8 *)
calculate_checksum(control, data) == (control + SumBytes(data)) % 256

(* (data.len() + 1) as u8 truncates *)
to_bytes(control, data) ==
    LET length == (Len(data) + 1) % 256
        checksum == calculate_checksum(control, data)
    IN  <<FT12_FRAME_START, length, length, FT12_FRAME_START, control>>
            \o data \o <<checksum, FT12_FRAME_END>>

ParseErr(e) == [ok |-> FALSE, err |-> e]
ParseOk(c, d) == [ok |-> TRUE, control |-> c, data |-> d]

from_bytes(bytes) ==
    IF Len(bytes) < 8 THEN ParseErr("InvalidFrameLength")
    ELSE IF bytes[1] # FT12_FRAME_START \/ bytes[4] # FT12_FRAME_START
    THEN ParseErr("InvalidFrameStart")
    ELSE LET length == bytes[2] IN
      IF bytes[3] # length THEN ParseErr("LengthMismatch")
      ELSE IF Len(bytes) # length + 6 THEN ParseErr("FrameLengthMismatch")
      ELSE LET control == bytes[5]
               data_len == length - 1
               data == SubSeq(bytes, 6, 5 + data_len)
               checksum == bytes[6 + data_len]
               end == bytes[7 + data_len]
           IN  IF end # FT12_FRAME_END THEN ParseErr("InvalidFrameEnd")
               ELSE IF checksum # calculate_checksum(control, data)
               THEN ParseErr("ChecksumMismatch")
               ELSE ParseOk(control, data)

(***************************************************************************)
(* cEMI construction for a group write (KDrive::create_group_write_cemi).  *)
(***************************************************************************)
KDRIVE_CEMI_L_DATA_REQ == 17

create_group_write_cemi(addr, data) ==
    LET header == <<KDRIVE_CEMI_L_DATA_REQ, 0, 188, 224, 0, 0,
                    (addr \div 256) % 256, addr % 256>>
    IN  IF Len(data) = 1
        THEN LET apci == 128 + (data[1] % 64)   \* 0x0080 | (data[0] & 0x003F)
             IN  header \o <<1, apci \div 256, apci % 256>>
        ELSE header \o <<(1 + Len(data)) % 256, 0, 128>>
                 \o (IF Len(data) > 1 THEN SubSeq(data, 2, Len(data)) ELSE <<>>)

(***************************************************************************)
(* The initialization script (initialize_device): request k and the        *)
(* response expected to it, each as <<control, data>>.                     *)
(***************************************************************************)
InitReq ==
    << <<115, <<167>>>>,
       <<83,  <<252, 0, 8, 1, 64, 16, 1>>>>,
       <<115, <<246, 0, 8, 1, 52, 16, 1, 0>>>>,
       <<83,  <<252, 0, 8, 1, 52, 16, 1>>>>,
       <<115, <<252, 0, 8, 1, 51, 16, 1>>>>,
       <<83,  <<252, 0, 0, 1, 56, 16, 1>>>> >>

InitResp ==
    << <<243, <<168, 255, 255, 0, 197, 1, 3, 162, 226, 0, 4>>>>,
       <<211, <<251, 0, 8, 1, 64, 16, 1, 0, 11>>>>,
       <<243, <<245, 0, 8, 1, 52, 16, 1>>>>,
       <<211, <<251, 0, 8, 1, 52, 16, 1, 0>>>>,
       <<243, <<251, 0, 8, 1, 51, 16, 1, 0, 2>>>>,
       <<211, <<251, 0, 0, 1, 56, 16, 1, 0, 55>>>> >>

InitSteps == 6
(* for _attempt in 0..20 *)
InitAttempts == 20
(* temp_buf of expect_specific_response, buffer of the receiver thread *)
(* ack_buf of send_frame and send_reset *)
AckBufSize == 1
TempBufSize == 64
RecvBufSize == 256

Min(a, b) == IF a < b THEN a ELSE b

(* if let Some(start_pos) = buffer.iter().position(|&b| b == FT12_FRAME_START) *)
FirstStart(buffer) ==
    IF \E i \in 1..Len(buffer) : buffer[i] = FT12_FRAME_START
    THEN CHOOSE i \in 1..Len(buffer) :
            /\ buffer[i] = FT12_FRAME_START
            /\ \A j \in 1..(i - 1) : buffer[j] # FT12_FRAME_START
    ELSE 0

(* <<>> stands for None; a frame is never empty *)
extract_complete_frame(buffer) ==
    LET start == FirstStart(buffer)     \* 1-based, start_pos = start - 1
    IN  IF start = 0 THEN <<>>
        ELSE IF Len(buffer) >= (start - 1) + 4
        THEN LET total_frame_length == buffer[start + 1] + 6
             IN  IF Len(buffer) >= (start - 1) + total_frame_length
                 THEN SubSeq(buffer, start, start - 1 + total_frame_length)
                 ELSE <<>>
        ELSE <<>>

(* variant: any byte read counts as the acknowledge *)
send_frame_ack_any(b) == "Ok"

(* variant: send_reset takes any byte for the acknowledge *)
send_reset_ack_any(b) == "Ok"

(* the acknowledge checks of send_frame and send_reset *)
send_frame_ack(b) == IF b = FT12_ACKNOWLEDGE THEN "Ok" ELSE "WrongAcknowledge"
send_reset_ack(b) == IF b # FT12_ACKNOWLEDGE THEN "WrongResetAcknowledge" ELSE "Ok"

(***************************************************************************)
(* process_frame: the result of parsing a received frame and whether its   *)
(* data is handed to the registered callbacks.                             *)
(***************************************************************************)
process_frame(frame_data) ==
    IF Len(frame_data) = 1 /\ frame_data[1] = FT12_ACKNOWLEDGE
    THEN [res |-> "Ok", delivered |-> FALSE]
    ELSE LET frame == from_bytes(frame_data)
         IN  IF ~frame.ok THEN [res |-> frame.err, delivered |-> FALSE]
             ELSE [res |-> "Ok", delivered |-> frame.control = FT12_DATA_INDICATION]

(***************************************************************************)
(* Bounds of the link model: calls of group_write, frames the device sends *)
(* on its own, retransmissions of an initialization response.              *)
(***************************************************************************)
MaxSends == 2
MaxDevFrames == 2
MaxRetrans == 19

(* inputs of group_write *)
GroupAddrs == {4266}
GroupData == {<<1>>}

(* what the device may answer in place of the acknowledge *)
AckBytes == {FT12_ACKNOWLEDGE, 0}

(* a frame as the device serializes it, with a deviation in one place *)
DevFrame(control, data, dev) ==
    LET good == to_bytes(control, data)
        n == Len(good)
    IN  CASE dev = "good"     -> good
          [] dev = "checksum" -> [good EXCEPT ![n - 1] = (good[n - 1] + 1) % 256]
          [] dev = "start"    -> [good EXCEPT ![1] = 0]
          [] dev = "length"   -> [good EXCEPT ![3] = (good[3] + 1) % 256]
          [] dev = "end"      -> [good EXCEPT ![n] = 23]

(* frames the device sends on its own once the link is up: the first one   *)
(* may be damaged or a stray acknowledge, the following ones are valid     *)
NextMenu ==
    {DevFrame(FT12_DATA_INDICATION, <<1>>, "good"),
     DevFrame(FT12_DATA_CONFIRM, <<1>>, "good")}
RunMenu ==
    {DevFrame(FT12_DATA_INDICATION, <<1>>, d) :
        d \in {"checksum", "start", "length", "end"}}
    \cup NextMenu \cup {<<FT12_ACKNOWLEDGE>>}

(* the bytes of a frame reach the host in one piece or in two; the first   *)
(* piece then is the frame start alone or the four header bytes            *)
SplitPoints == {1, 4}

(* answers of the device to the request of initialization step k *)
RespMenu(k) ==
    {DevFrame(InitResp[k][1], InitResp[k][2], "good"),
     DevFrame(InitResp[k][1], InitResp[k][2], "checksum"),
     DevFrame(InitResp[k][1], <<0>>, "good"),
     DevFrame(InitReq[k][1], InitResp[k][2], "good")}

(***************************************************************************)
(* State of the codec exercise: the frame, its serialized bytes, the bit   *)
(* inverted in them (<<byte index, bit>>), the parse result, the position. *)
(***************************************************************************)
VARIABLES fctrl, fdata, fbytes, fflip, fres, fpc

fvars == <<fctrl, fdata, fbytes, fflip, fres, fpc>>

(***************************************************************************)
(* State of the position estimator (tracking.rs).  An Instant is held as   *)
(* the time elapsed since it, in milliseconds, which is all the code ever  *)
(* computes from one (duration_since, elapsed).                            *)
(*   states     the StateStore: a function from the blinds that have an    *)
(*              entry to (time, dir, pos, ang); time is NoTime for None    *)
(*   silence    time track_movements has been waiting in                   *)
(*              timeout(5 s, receiver.recv())                              *)
(*   moves      full-move and wind events seen so far                      *)
(*   ticks      advances of the clock that changed the age of a move       *)
(*   tlast      history: the last input of the estimator loop and what it  *)
(*              reported to the observer                                   *)
(*   ovf        history: an addition on a u8 has overflowed                *)
(***************************************************************************)
VARIABLES states, silence, moves, ticks, tlast, ovf

tvars == <<states, silence, moves, ticks, tlast, ovf>>

(***************************************************************************)
(* State of the cEMI codec exercise: the group address and payload, the    *)
(* message create_group_write_cemi builds from them, what the accessors of *)
(* cEMIMsg read from it, the position.                                     *)
(***************************************************************************)
VARIABLES caddr, cdata, cemi, cres, cpc

cvars == <<caddr, cdata, cemi, cres, cpc>>

(***************************************************************************)
(* State of the motion planner (main.rs).                                  *)
(*   plans      the invocations of move_to_pos: position in the function,  *)
(*              arguments (id, target_p, target_a), the local p, a and     *)
(*              dir, the time left of the sleep in progress; and, for the  *)
(*              record, whether the blind was unknown at the start and the *)
(*              (addr, direction) pairs the invocation has sent            *)
(*   kq         the GroupWriter channel: (addr, direction) pairs not yet   *)
(*              taken by the task that calls group_write                   *)
(*   wire       the cEMI messages handed to the link layer, in order       *)
(*   echoes     confirmations of these the device has not yet delivered    *)
(***************************************************************************)
VARIABLES plans, kq, wire, echoes

pvars == <<plans, kq, wire, echoes>>

(* what the link and the frame codec leave alone *)
xvars == <<tvars, cvars, pvars>>

(***************************************************************************)
(* State of the link.                                                      *)
(*   mutex, poisoned   the Mutex around the port: its holder, and whether  *)
(*                     a thread panicked while holding it                  *)
(*   rx                bytes the device has sent and the host has not read *)
(*   tx                the writes of the host, one byte sequence per       *)
(*                     write_all                                           *)
(*   mpc, step, cur, mres, sends                                           *)
(*                     the thread that calls open and group_write: its     *)
(*                     position, the initialization step (0 reset, 1..6,   *)
(*                     7 once open has returned), the frame being sent,    *)
(*                     the last result, the number of group_write calls    *)
(*   rbuf, attempt     response_buffer and loop counter of                 *)
(*                     expect_specific_response                            *)
(*   rpc, buf, rerr    the receiver thread: its position, the bytes read   *)
(*                     in the current call, why it ended                   *)
(*   dq, dlast, downe, dresp, dsent, dretx                                 *)
(*                     the device: bytes of its current frame not yet on   *)
(*                     the line, that frame, whether it owes an            *)
(*                     acknowledge / a response, frames and                *)
(*                     retransmissions sent                                *)
(*   pend, overlap, okSends, rxlog, lastTx                                 *)
(*                     history: the frame whose acknowledge is outstanding *)
(*                     ("sent" / "rcvd"), whether a transfer began while   *)
(*                     one was outstanding, control bytes of successful    *)
(*                     group writes, the frames returned by                *)
(*                     read_and_ack_whole_frame, the last host transaction *)
(***************************************************************************)
VARIABLES mutex, poisoned, rx, tx,
          mpc, step, cur, mres, sends, rbuf, attempt,
          rpc, buf, rerr,
          dq, dlast, downe, dresp, dsent, dretx,
          pend, overlap, okSends, rxlog, lastTx

portv == <<mutex, poisoned>>
mainv == <<mpc, step, cur, mres, sends>>
expv == <<rbuf, attempt>>
recvv == <<rpc, buf, rerr>>
devv == <<dq, dlast, downe, dresp, dsent, dretx>>
histv == <<pend, overlap, okSends, rxlog, lastTx>>
lvars == <<portv, rx, tx, mainv, expv, recvv, devv, histv>>

RunStep == InitSteps + 1
NoTx == [kind |-> "none", wrote |-> FALSE, ack |-> -1, consumed |-> 0, result |-> "none"]
TxRec(k, w, a, c, r) == [kind |-> k, wrote |-> w, ack |-> a, consumed |-> c, result |-> r]

LinkInit ==
    /\ mutex = "free" /\ poisoned = FALSE
    /\ rx = <<>> /\ tx = <<>>
    /\ mpc = "reset" /\ step = 0 /\ cur = <<>> /\ mres = "none" /\ sends = 0
    /\ rbuf = <<>> /\ attempt = 0
    /\ rpc = "off" /\ buf = <<>> /\ rerr = "none"
    /\ dq = <<>> /\ dlast = <<>> /\ downe = FALSE /\ dresp = FALSE
    /\ dsent = 0 /\ dretx = 0
    /\ pend = "none" /\ overlap = FALSE /\ okSends = <<>> /\ rxlog = <<>>
    /\ lastTx = NoTx

(***************************************************************************)
(* Return of send_reset / send_frame to its caller: open goes on with the  *)
(* script or fails (the ? operator), group_write hands the result back.    *)
(***************************************************************************)
MainReturn(rec) ==
    /\ mres' = rec.result
    /\ lastTx' = rec
    /\ sends' = sends
    /\ IF step = RunStep
       THEN /\ mpc' = "idle"
            /\ UNCHANGED <<step, cur>>
       ELSE IF rec.result # "Ok"
       THEN /\ mpc' = "failed"
            /\ UNCHANGED <<step, cur>>
       ELSE IF step = 0
       THEN /\ mpc' = "send"
            /\ step' = 1
            /\ cur' = InitReq[1]
       ELSE /\ mpc' = "expect"
            /\ UNCHANGED <<step, cur>>

(* a frame of the host goes onto the wire *)
HostFrameWritten ==
    /\ overlap' = (overlap \/ pend # "none")
    /\ pend' = "sent"

(***************************************************************************)
(* send_reset                                                              *)
(***************************************************************************)
reset_frame == <<FT12_RESET_REQUEST, FT12_RESET_INDICATION, FT12_RESET_INDICATION, FT12_FRAME_END>>

ResetWrite ==
    /\ mpc = "reset" /\ mutex = "free" /\ ~poisoned
    /\ mutex' = "main"
    /\ tx' = Append(tx, reset_frame)
    /\ mpc' = "reset_wait"
    /\ downe' = TRUE
    /\ HostFrameWritten
    /\ UNCHANGED <<fvars, xvars, poisoned, rx, step, cur, mres, sends, expv, recvv,
                   dq, dlast, dresp, dsent, dretx, okSends, rxlog, lastTx>>

ResetWriteFail ==
    /\ mpc = "reset" /\ mutex = "free" /\ ~poisoned
    /\ MainReturn(TxRec("reset", FALSE, -1, 0, "ResetRequestFailed"))
    /\ UNCHANGED <<fvars, xvars, portv, rx, tx, expv, recvv, devv, pend, overlap, okSends, rxlog>>

ResetAckTimeout ==
    /\ mpc = "reset_wait" /\ rx = <<>>
    /\ mutex' = "free"
    /\ MainReturn(TxRec("reset", TRUE, -1, 0, "TimeoutWaitingForDeviceReadyIndication"))
    /\ UNCHANGED <<fvars, xvars, poisoned, rx, tx, expv, recvv, devv, pend, overlap, okSends, rxlog>>

ResetAckReadError ==
    /\ mpc = "reset_wait" /\ rx # <<>>
    /\ mutex' = "free"
    /\ MainReturn(TxRec("reset", TRUE, -1, 0, "ResetAcknowledgeFailed"))
    /\ UNCHANGED <<fvars, xvars, poisoned, rx, tx, expv, recvv, devv, pend, overlap, okSends, rxlog>>

ResetAckRead ==
    /\ mpc = "reset_wait" /\ rx # <<>>
    /\ rx' = SubSeq(rx, AckBufSize + 1, Len(rx))
    /\ mutex' = "free"
    /\ MainReturn(TxRec("reset", TRUE, Head(rx), Len(rx) - Len(rx'), send_reset_ack(Head(rx))))
    /\ pend' = IF send_reset_ack(Head(rx)) = "Ok" THEN "none" ELSE pend
    /\ UNCHANGED <<fvars, xvars, poisoned, tx, expv, recvv, devv, overlap, okSends, rxlog>>

(***************************************************************************)
(* send_frame                                                              *)
(***************************************************************************)
SendWrite ==
    /\ mpc = "send" /\ mutex = "free" /\ ~poisoned
    /\ mutex' = "main"
    /\ tx' = Append(tx, to_bytes(cur[1], cur[2]))
    /\ mpc' = "send_wait"
    /\ downe' = TRUE
    /\ HostFrameWritten
    /\ UNCHANGED <<fvars, xvars, poisoned, rx, step, cur, mres, sends, expv, recvv,
                   dq, dlast, dresp, dsent, dretx, okSends, rxlog, lastTx>>

SendWriteFail ==
    /\ mpc = "send" /\ mutex = "free" /\ ~poisoned
    /\ MainReturn(TxRec("data", FALSE, -1, 0, "WriteError"))
    /\ UNCHANGED <<fvars, xvars, portv, rx, tx, expv, recvv, devv, pend, overlap, okSends, rxlog>>

(* port_arc.lock().unwrap() on a poisoned mutex *)
SendPoisoned ==
    /\ mpc = "send" /\ poisoned
    /\ mpc' = "panicked"
    /\ UNCHANGED <<fvars, xvars, portv, rx, tx, step, cur, mres, sends, expv, recvv, devv, histv>>

SendAckTimeout ==
    /\ mpc = "send_wait" /\ rx = <<>>
    /\ mutex' = "free"
    /\ MainReturn(TxRec("data", TRUE, -1, 0, "TimeoutWaitingForDeviceReadyIndication"))
    /\ UNCHANGED <<fvars, xvars, poisoned, rx, tx, expv, recvv, devv, pend, overlap, okSends, rxlog>>

SendAckReadError ==
    /\ mpc = "send_wait" /\ rx # <<>>
    /\ mutex' = "free"
    /\ MainReturn(TxRec("data", TRUE, -1, 0, "ReadError"))
    /\ UNCHANGED <<fvars, xvars, poisoned, rx, tx, expv, recvv, devv, pend, overlap, okSends, rxlog>>

SendAckRead ==
    /\ mpc = "send_wait" /\ rx # <<>>
    /\ rx' = SubSeq(rx, AckBufSize + 1, Len(rx))
    /\ mutex' = "free"
    /\ MainReturn(TxRec("data", TRUE, Head(rx), Len(rx) - Len(rx'), send_frame_ack(Head(rx))))
    /\ pend' = IF send_frame_ack(Head(rx)) = "Ok" THEN "none" ELSE pend
    /\ okSends' = IF step = RunStep /\ send_frame_ack(Head(rx)) = "Ok"
                  THEN Append(okSends, cur[1]) ELSE okSends
    /\ UNCHANGED <<fvars, xvars, poisoned, tx, expv, recvv, devv, overlap, rxlog>>

(***************************************************************************)
(* expect_specific_response, called by initialize_device after each        *)
(* request with the expected <<control, data>> of the step.                *)
(***************************************************************************)
ExpLock ==
    /\ mpc = "expect" /\ mutex = "free" /\ ~poisoned
    /\ mutex' = "main"
    /\ rbuf' = <<>>
    /\ attempt' = 0
    /\ mpc' = "exp_read"
    /\ UNCHANGED <<fvars, xvars, poisoned, rx, tx, step, cur, mres, sends, recvv, devv, histv>>

(* return to initialize_device, which goes on with the next request, and   *)
(* after the last step to open, which starts the receiver thread           *)
ExpReturn(result) ==
    /\ mutex' = "free"
    /\ mres' = result
    /\ IF result # "Ok"
       THEN /\ mpc' = "failed"
            /\ UNCHANGED <<step, cur>>
       ELSE IF step < InitSteps
       THEN /\ mpc' = "send"
            /\ step' = step + 1
            /\ cur' = InitReq[step + 1]
       ELSE /\ mpc' = "start_recv"
            /\ UNCHANGED <<step, cur>>

ExpTimeout ==
    /\ mpc = "exp_read" /\ attempt < InitAttempts /\ rx = <<>>
    /\ ExpReturn("TimeoutWaitingForDeviceReadyIndication")
    /\ UNCHANGED <<fvars, xvars, poisoned, rx, tx, sends, expv, recvv, devv, histv>>

ExpReadError ==
    /\ mpc = "exp_read" /\ attempt < InitAttempts /\ rx # <<>>
    /\ ExpReturn("ReadErrorDuringResponseValidation")
    /\ UNCHANGED <<fvars, xvars, poisoned, rx, tx, sends, expv, recvv, devv, histv>>

ExpExhausted ==
    /\ mpc = "exp_read" /\ attempt = InitAttempts
    /\ ExpReturn("TimeoutWaitingForInitializationResponse2")
    /\ UNCHANGED <<fvars, xvars, poisoned, rx, tx, sends, expv, recvv, devv, histv>>

(* the bytes one port.read(&mut temp_buf) returns, and the buffer after it *)
ExpChunk == SubSeq(rx, 1, Min(Len(rx), TempBufSize))
ExpBuffer == rbuf \o ExpChunk
ExpFrame == extract_complete_frame(ExpBuffer)
(* variant: only the control byte of the response is compared *)
ExpMatchesControl(frame) == frame.control = InitResp[step][1]

ExpMatches(frame) ==
    /\ frame.data = InitResp[step][2]
    /\ frame.control = InitResp[step][1]

(* no complete frame yet, or one that does not parse: next attempt *)
ExpReadMore ==
    /\ mpc = "exp_read" /\ attempt < InitAttempts /\ rx # <<>>
    /\ ExpFrame = <<>> \/ ~from_bytes(ExpFrame).ok
    /\ rx' = SubSeq(rx, Len(ExpChunk) + 1, Len(rx))
    /\ rbuf' = ExpBuffer
    /\ attempt' = attempt + 1
    /\ UNCHANGED <<fvars, xvars, portv, tx, mainv, recvv, devv, histv>>

ExpReadMatch ==
    /\ mpc = "exp_read" /\ attempt < InitAttempts /\ rx # <<>>
    /\ ExpFrame # <<>> /\ from_bytes(ExpFrame).ok
    /\ ExpMatches(from_bytes(ExpFrame))
    /\ rx' = SubSeq(rx, Len(ExpChunk) + 1, Len(rx))
    /\ rbuf' = ExpBuffer
    /\ tx' = Append(tx, <<FT12_ACKNOWLEDGE>>)
    /\ ExpReturn("Ok")
    /\ UNCHANGED <<fvars, xvars, poisoned, sends, attempt, recvv, devv, histv>>

ExpReadMatchAckFail ==
    /\ mpc = "exp_read" /\ attempt < InitAttempts /\ rx # <<>>
    /\ ExpFrame # <<>> /\ from_bytes(ExpFrame).ok
    /\ ExpMatches(from_bytes(ExpFrame))
    /\ rx' = SubSeq(rx, Len(ExpChunk) + 1, Len(rx))
    /\ rbuf' = ExpBuffer
    /\ pend' = "rcvd"
    /\ ExpReturn("FailedToSendResponseAck2")
    /\ UNCHANGED <<fvars, xvars, poisoned, tx, sends, attempt, recvv, devv, overlap, okSends, rxlog, lastTx>>

ExpReadUnexpected ==
    /\ mpc = "exp_read" /\ attempt < InitAttempts /\ rx # <<>>
    /\ ExpFrame # <<>> /\ from_bytes(ExpFrame).ok
    /\ ~ExpMatches(from_bytes(ExpFrame))
    /\ rx' = SubSeq(rx, Len(ExpChunk) + 1, Len(rx))
    /\ rbuf' = ExpBuffer
    /\ pend' = "rcvd"
    /\ ExpReturn("UnexpectedResponseDataDuringInitialization")
    /\ UNCHANGED <<fvars, xvars, poisoned, tx, sends, attempt, recvv, devv, overlap, okSends, rxlog, lastTx>>

(***************************************************************************)
(* open, after initialize_device: start_receiver_thread and return.        *)
(***************************************************************************)
StartReceiver ==
    /\ mpc = "start_recv"
    /\ rpc' = "loop"
    /\ mpc' = "idle"
    /\ step' = RunStep
    /\ UNCHANGED <<fvars, xvars, portv, rx, tx, cur, mres, sends, expv, buf, rerr, devv, histv>>

(***************************************************************************)
(* group_write, called by the application once open has returned.         *)
(***************************************************************************)
GroupWrite(addr, data) ==
    /\ mpc = "idle" /\ sends < MaxSends
    /\ cur' = <<FT12_DATA_REQUEST, create_group_write_cemi(addr, data)>>
    /\ sends' = sends + 1
    /\ mpc' = "send"
    /\ UNCHANGED <<fvars, xvars, portv, rx, tx, step, mres, expv, recvv, devv, histv>>

(***************************************************************************)
(* The receiver thread: the loop of start_receiver_thread around           *)
(* read_and_ack_whole_frame and process_frame.                             *)
(***************************************************************************)
(* the stop signal is not sent while the handle is in use: the loop goes   *)
(* on to read_and_ack_whole_frame and takes the lock                       *)
RecvLock ==
    /\ rpc = "loop" /\ mutex = "free" /\ ~poisoned
    /\ mutex' = "recv"
    /\ rpc' = "wait"
    /\ buf' = <<>>
    /\ UNCHANGED <<fvars, xvars, poisoned, rx, tx, mainv, expv, rerr, devv, histv>>

(* wait_read_fd(1 s) times out: the loop goes round *)
RecvTimeout ==
    /\ rpc = "wait" /\ rx = <<>>
    /\ mutex' = "free"
    /\ rpc' = "loop"
    /\ UNCHANGED <<fvars, xvars, poisoned, rx, tx, mainv, expv, buf, rerr, devv, histv>>

(* port.read fails: the thread returns *)
RecvReadError ==
    /\ rpc = "wait" /\ rx # <<>>
    /\ mutex' = "free"
    /\ rpc' = "exited"
    /\ rerr' = "ReadError"
    /\ UNCHANGED <<fvars, xvars, poisoned, rx, tx, mainv, expv, buf, devv, histv>>

(* total length of the frame whose first bytes are b (Len(b) >= 2) *)
FrameLength(b) == b[2] + 6

(* &mut buf[read..length] with read = Len(b): the slice exists *)
SliceOk(b) == Len(b) <= FrameLength(b) /\ FrameLength(b) <= RecvBufSize

(* position of the thread once the header is in b *)
AfterHeader(b) == IF SliceOk(b) THEN "rest" ELSE "panicked"

(* history: all bytes of the frame are read; bytes beyond it are read *)
FrameRead(b) == Len(b) >= 2 /\ Len(b) >= FrameLength(b)
OverRead(b) == Len(b) >= 2 /\ Len(b) > FrameLength(b)

RecvChunk == SubSeq(rx, 1, Min(Len(rx), RecvBufSize))

RecvFirstRead ==
    /\ rpc = "wait" /\ rx # <<>>
    /\ rx' = SubSeq(rx, Len(RecvChunk) + 1, Len(rx))
    /\ buf' = RecvChunk
    /\ IF RecvChunk[1] # FT12_FRAME_START
       THEN /\ rpc' = "exited"
            /\ rerr' = "InvalidData"
            /\ mutex' = "free"
            /\ UNCHANGED <<poisoned, pend, overlap>>
       ELSE /\ rerr' = rerr
            /\ rpc' = IF Len(RecvChunk) = 1 THEN "hdr" ELSE AfterHeader(RecvChunk)
            /\ poisoned' = (rpc' = "panicked")
            /\ mutex' = IF rpc' = "panicked" THEN "free" ELSE mutex
            /\ overlap' = (overlap \/ pend # "none" \/ OverRead(RecvChunk))
            /\ pend' = IF FrameRead(RecvChunk) THEN "rcvd" ELSE pend
    /\ UNCHANGED <<fvars, xvars, tx, mainv, expv, devv, okSends, rxlog, lastTx>>

(* only the frame start was read: read_exact(&mut buf[1..4]) *)
RecvHeader ==
    /\ rpc = "hdr" /\ rx # <<>>
    /\ LET n == Min(Len(rx), 4 - Len(buf))
           b == buf \o SubSeq(rx, 1, n)
       IN  /\ rx' = SubSeq(rx, n + 1, Len(rx))
           /\ buf' = b
           /\ rpc' = IF Len(b) < 4 THEN "hdr" ELSE AfterHeader(b)
    /\ poisoned' = (rpc' = "panicked")
    /\ mutex' = IF rpc' = "panicked" THEN "free" ELSE mutex
    /\ UNCHANGED <<fvars, xvars, tx, mainv, expv, rerr, devv, histv>>

(* wait_read_fd(None), then read_exact(&mut buf[read..length]) *)
RecvRest ==
    /\ rpc = "rest" /\ rx # <<>>
    /\ LET n == Min(Len(rx), FrameLength(buf) - Len(buf))
           b == buf \o SubSeq(rx, 1, n)
       IN  /\ rx' = SubSeq(rx, n + 1, Len(rx))
           /\ buf' = b
           /\ rpc' = IF Len(b) < FrameLength(b) THEN "rest" ELSE "ack"
           /\ pend' = IF FrameRead(b) THEN "rcvd" ELSE pend
    /\ UNCHANGED <<fvars, xvars, portv, tx, mainv, expv, rerr, devv, overlap, okSends, rxlog, lastTx>>

(* the ack is written, the frame returned and handed to process_frame *)
RecvAck ==
    /\ rpc = "ack"
    /\ tx' = Append(tx, <<FT12_ACKNOWLEDGE>>)
    /\ mutex' = "free"
    /\ pend' = "none"
    /\ rxlog' = Append(rxlog, [frame |-> buf, acked |-> TRUE,
                               res |-> process_frame(buf).res,
                               delivered |-> process_frame(buf).delivered])
    /\ rpc' = "loop"
    /\ UNCHANGED <<fvars, xvars, poisoned, rx, mainv, expv, buf, rerr, devv, overlap, okSends, lastTx>>

(* write_all fails with TimedOut (wait_write_fd): taken for a read timeout *)
RecvAckTimedOut ==
    /\ rpc = "ack"
    /\ mutex' = "free"
    /\ rpc' = "loop"
    /\ UNCHANGED <<fvars, xvars, poisoned, rx, tx, mainv, expv, buf, rerr, devv, histv>>

RecvAckFail ==
    /\ rpc = "ack"
    /\ mutex' = "free"
    /\ rpc' = "exited"
    /\ rerr' = "WriteError"
    /\ UNCHANGED <<fvars, xvars, poisoned, rx, tx, mainv, expv, buf, devv, histv>>

(***************************************************************************)
(* The device at the other end of the line.                                *)
(***************************************************************************)
DevAck(b) ==
    /\ mpc # "failed"
    /\ downe /\ dq = <<>>
    /\ rx' = Append(rx, b)
    /\ downe' = FALSE
    /\ dresp' = (dresp \/ (b = FT12_ACKNOWLEDGE /\ step \in 1..InitSteps))
    /\ UNCHANGED <<fvars, xvars, portv, tx, mainv, expv, recvv, dq, dlast, dsent, dretx, histv>>

DevRespond(f) ==
    /\ mpc # "failed"
    /\ dresp /\ dq = <<>> /\ step \in 1..InitSteps
    /\ f \in RespMenu(step)
    /\ dq' = f
    /\ dlast' = f
    /\ dresp' = FALSE
    /\ dretx' = 0
    /\ UNCHANGED <<fvars, xvars, portv, rx, tx, mainv, expv, recvv, downe, dsent, histv>>

(* no acknowledge came for the response: it is sent again. The device     *)
(* waits far longer for the acknowledge than the host takes to read what   *)
(* is on the line, so the earlier transmission has been read by then.      *)
DevRetransmit ==
    /\ mpc = "exp_read"
    /\ dq = <<>> /\ rx = <<>> /\ dlast # <<>>
    /\ dretx < MaxRetrans
    /\ tx[Len(tx)] # <<FT12_ACKNOWLEDGE>>
    /\ rx' = dlast
    /\ dretx' = dretx + 1
    /\ UNCHANGED <<fvars, xvars, portv, tx, mainv, expv, recvv, dq, dlast, downe, dresp, dsent, histv>>

DevIndicate(f) ==
    /\ step = RunStep /\ dq = <<>> /\ dsent < MaxDevFrames
    /\ f \in (IF dsent = 0 THEN RunMenu ELSE NextMenu)
    /\ dq' = f
    /\ dlast' = f
    /\ dsent' = dsent + 1
    /\ UNCHANGED <<fvars, xvars, portv, rx, tx, mainv, expv, recvv, downe, dresp, dretx, histv>>

DevPush(n) ==
    /\ mpc # "failed"
    /\ dq # <<>>
    /\ n = Len(dq) \/ (dq = dlast /\ n \in SplitPoints /\ n < Len(dq))
    /\ rx' = rx \o SubSeq(dq, 1, n)
    /\ dq' = SubSeq(dq, n + 1, Len(dq))
    /\ UNCHANGED <<fvars, xvars, portv, tx, mainv, expv, recvv, dlast, downe, dresp, dsent, dretx, histv>>

(***************************************************************************)
(* State of the codec exercise: a frame (fctrl, fdata) is serialized,      *)
(* optionally one bit of the serialized bytes is inverted, and the bytes   *)
(* are parsed.                                                             *)
(***************************************************************************)
NoFlip == <<0, 0>>
NoRes == [ok |-> FALSE, err |-> "none"]

FrameInit ==
    /\ LinkInit
    /\ fctrl \in CtrlBytes
    /\ fdata \in SeqsUpTo(DataBytes, MaxDataLen)
    /\ fbytes = <<>>
    /\ fflip = NoFlip
    /\ fres = NoRes
    /\ fpc = "new"

Serialize ==
    /\ fpc = "new"
    /\ fbytes' = to_bytes(fctrl, fdata)
    /\ fpc' = "serialized"
    /\ UNCHANGED <<lvars, xvars, fctrl, fdata, fflip, fres>>

(* invert bit k of the i-th byte of the serialized frame *)
FlipBit(i, k) ==
    /\ fpc = "serialized"
    /\ i \in 1..Len(fbytes)
    /\ fbytes' = [fbytes EXCEPT ![i] = FlipBitOf(fbytes[i], k)]
    /\ fflip' = <<i, k>>
    /\ fpc' = "flipped"
    /\ UNCHANGED <<lvars, xvars, fctrl, fdata, fres>>

Parse ==
    /\ fpc \in {"serialized", "flipped"}
    /\ fres' = from_bytes(fbytes)
    /\ fpc' = "parsed"
    /\ UNCHANGED <<lvars, xvars, fctrl, fdata, fbytes, fflip>>

FrameNext ==
    \/ Serialize
    \/ \E i \in 1..(MaxDataLen + 7), k \in 0..7 : FlipBit(i, k)
    \/ Parse


(***************************************************************************)
(* cEMIMsg: the accessors over a received cEMI message (a byte sequence,   *)
(* 1-based here).                                                          *)
(***************************************************************************)
KDRIVE_CEMI_L_DATA_IND == 41
KDRIVE_MAX_GROUP_VALUE_LEN == 14

get_msg_code(data) == data[1]

(* u16::from_be_bytes([data[9], data[10]]).shr(6).bitand(0x0F) == 2 *)
is_group_write(data) ==
    IF Len(data) < 11 THEN FALSE
    ELSE ((data[10] * 256 + data[11]) \div 64) % 16 = 2

CemiErr(e) == [ok |-> FALSE, err |-> e]

get_dest(data) ==
    IF Len(data) < 8 THEN CemiErr("CemiFrameTooShortForDestination")
    ELSE [ok |-> TRUE, addr |-> data[7] * 256 + data[8]]

(* variant: the first byte is copied without the mask 0x3F *)
get_group_data_unmasked(data) ==
    IF Len(data) < 9 THEN CemiErr("CemiFrameTooShortForDataLength")
    ELSE LET len == data[9] IN
      IF len = 0 THEN [ok |-> TRUE, msg |-> <<>>]
      ELSE IF Len(data) < 10 + len THEN CemiErr("CemiFrameTruncated")
      ELSE IF len > KDRIVE_MAX_GROUP_VALUE_LEN THEN CemiErr("CemiDataTooLarge")
      ELSE [ok |-> TRUE,
            msg |-> SubSeq(data, 11, 10 + (IF len - 1 > 1 THEN len - 1 ELSE 1))]

(* msg is the caller's buffer, all zero; the result is msg[..max(len-1, 1)] *)
get_group_data(data) ==
    IF Len(data) < 9 THEN CemiErr("CemiFrameTooShortForDataLength")
    ELSE LET len == data[9] IN
      IF len = 0 THEN [ok |-> TRUE, msg |-> <<>>]
      ELSE IF Len(data) < 10 + len THEN CemiErr("CemiFrameTruncated")
      ELSE IF len > KDRIVE_MAX_GROUP_VALUE_LEN THEN CemiErr("CemiDataTooLarge")
      ELSE LET payload == SubSeq(data, 11, 10 + len)
               msg == [i \in 1..len |-> IF i = 1 THEN payload[1] % 64 ELSE payload[i]]
               n == IF len - 1 > 1 THEN len - 1 ELSE 1
           IN  [ok |-> TRUE, msg |-> SubSeq(msg, 1, n)]

(***************************************************************************)
(* Blind, Direction (types.rs).                                            *)
(***************************************************************************)
Up == 0
Down == 1

BUS_START_ADDR == 170
CMD_SINGLE_STEP == 4352
CMD_FULL_MOVE == 4096

(* the port letters 'a'..'h' *)
Ports == 97..104

from_port(c) == (c - 97 + BUS_START_ADDR) % 256

wind == 0

Blinds == {from_port(c) : c \in Ports}

BusAddrErr == [ok |-> FALSE, blind |-> 0, single |-> FALSE]

(* upper = addr & 0xFF00, lower = addr & 0xff *)
(* variant: the offset of the low byte is compared with < instead of <= *)
from_bus_addr_exclusive(addr) ==
    LET lower == addr % 256
        upper == addr - lower
    IN  IF lower >= BUS_START_ADDR /\ lower - BUS_START_ADDR < 104 - 97
        THEN [ok |-> TRUE, blind |-> lower, single |-> upper = CMD_SINGLE_STEP]
        ELSE BusAddrErr

from_bus_addr(addr) ==
    LET lower == addr % 256
        upper == addr - lower
    IN  IF lower >= BUS_START_ADDR /\ lower - BUS_START_ADDR <= 104 - 97
        THEN [ok |-> TRUE, blind |-> lower, single |-> upper = CMD_SINGLE_STEP]
        ELSE BusAddrErr

to_bus_addr(blind, single_step) ==
    IF single_step THEN CMD_SINGLE_STEP + blind ELSE CMD_FULL_MOVE + blind

(***************************************************************************)
(* on_telegram and track_write: the event a telegram puts on the channel   *)
(* to track_movements, if any, and whether the task panics on it.          *)
(***************************************************************************)
NoEvent == [dir |-> Up, single |-> FALSE, id |-> -1]
Event(d, s, b) == [dir |-> d, single |-> s, id |-> b]

Handled(ev) == [panic |-> FALSE, ev |-> ev]
Panicked == [panic |-> TRUE, ev |-> NoEvent]

track_write(addr, val) ==
    LET r == from_bus_addr(addr)
    IN  IF r.ok
        THEN Event(IF val = Up THEN Up ELSE Down, r.single, r.blind)
        ELSE NoEvent

(* data[..6] == [46, 0, 188, 224, 255, 255] && data[8..10] == [1, 0], and  *)
(* what follows: the confirmation of a group write of our own              *)
on_confirmation(data) ==
    IF Len(data) < 6 THEN Panicked
    ELSE IF SubSeq(data, 1, 6) # <<46, 0, 188, 224, 255, 255>> THEN Handled(NoEvent)
    ELSE IF Len(data) < 10 THEN Panicked
    ELSE IF SubSeq(data, 9, 10) # <<1, 0>> THEN Handled(NoEvent)
    ELSE IF (data[7] \div 16) % 2 = 0 THEN Handled(NoEvent)
    ELSE IF Len(data) < 11 THEN Panicked
    ELSE IF data[11] \div 128 = 0 THEN Handled(NoEvent)
    ELSE Handled(track_write(data[7] * 256 + data[8], data[11] % 128))

on_telegram(data) ==
    IF KDRIVE_CEMI_L_DATA_IND = get_msg_code(data) /\ is_group_write(data)
    THEN LET addr == get_dest(data)
             msg == get_group_data(data)
         IN  IF ~addr.ok \/ ~msg.ok THEN on_confirmation(data)
             ELSE IF addr.addr = 1
             THEN IF msg.msg # <<0>> THEN Handled(Event(Up, FALSE, wind))
                  ELSE Handled(NoEvent)
             ELSE IF addr.addr = 2
             THEN IF Len(msg.msg) < 2 THEN Panicked ELSE Handled(NoEvent)
             ELSE IF (addr.addr \div 512) * 512 = 4096 /\ Len(msg.msg) = 1
             THEN Handled(track_write(addr.addr, msg.msg[1]))
             ELSE Handled(NoEvent)
    ELSE on_confirmation(data)

(***************************************************************************)
(* Pos and Angle (types.rs): u8 values; durations are in milliseconds.     *)
(***************************************************************************)
FULL_TRAVEL_TIME == 63500
FULL_TURN_TIME == 2800

AngleMAX == 7
AngleTOP == AngleMAX
AngleBOTTOM == 0
PosTOP == 100
PosBOTTOM == 0

(* a sum of two u8 as the release build computes it, and whether it wraps *)
WrappingAdd(a, b) == (a + b) % 256
AddOverflows(a, b) == a + b > 255
SaturatingSub(a, b) == IF a > b THEN a - b ELSE 0

(* div as u8 *)
AngleDiv(time_moving) == ((AngleMAX * time_moving) \div FULL_TURN_TIME) % 256
PosDiv(time_moving) == ((100 * time_moving) \div FULL_TRAVEL_TIME) % 256

(* variant of Angle::up: the sum is stored without the comparison with MAX *)
AngleUpUnclamped(ang, time_moving) ==
    IF time_moving >= FULL_TURN_TIME THEN AngleMAX
    ELSE WrappingAdd(ang, AngleDiv(time_moving))

AngleUp(ang, time_moving) ==
    IF time_moving >= FULL_TURN_TIME THEN AngleMAX
    ELSE LET t == WrappingAdd(ang, AngleDiv(time_moving))
         IN  IF t > AngleMAX THEN AngleMAX ELSE t

(* variant of Angle::down: the quotient is taken over the travel time *)
AngleDownByTravel(ang, time_moving) ==
    IF time_moving >= FULL_TURN_TIME THEN 0
    ELSE SaturatingSub(ang, ((AngleMAX * time_moving) \div FULL_TRAVEL_TIME) % 256)

AngleDown(ang, time_moving) ==
    IF time_moving >= FULL_TURN_TIME THEN 0
    ELSE SaturatingSub(ang, AngleDiv(time_moving))

step_up(ang, arg) ==
    LET t == WrappingAdd(ang, arg)
    IN  IF t > AngleMAX THEN AngleMAX ELSE t

(* variant of Angle::step_down: the difference is taken without saturation *)
step_down_wrapping(ang, arg) == (ang - arg) % 256

step_down(ang, arg) == IF ang >= arg THEN ang - arg ELSE 0

(* variant: the elapsed time is taken in whole seconds *)
PosUpSecs(pos, time_moving) ==
    IF time_moving >= FULL_TRAVEL_TIME THEN 100
    ELSE LET t == WrappingAdd(pos, (100 * (time_moving \div 1000))
                                       \div (FULL_TRAVEL_TIME \div 1000))
         IN  IF t > 100 THEN 100 ELSE t

PosUp(pos, time_moving) ==
    IF time_moving >= FULL_TRAVEL_TIME THEN 100
    ELSE LET t == WrappingAdd(pos, PosDiv(time_moving))
         IN  IF t > 100 THEN 100 ELSE t

(* variant: the quotient is rounded to the nearest unit *)
PosDownRounded(pos, time_moving) ==
    IF time_moving >= FULL_TRAVEL_TIME THEN 0
    ELSE SaturatingSub(pos, (100 * time_moving + FULL_TRAVEL_TIME \div 2)
                                \div FULL_TRAVEL_TIME)

PosDown(pos, time_moving) ==
    IF time_moving >= FULL_TRAVEL_TIME THEN 0
    ELSE SaturatingSub(pos, PosDiv(time_moving))

(***************************************************************************)
(* full_move, shortened_move: the (pos, ang) they leave, and whether one   *)
(* of their additions overflows.                                           *)
(***************************************************************************)
(* variant: the two endpoints exchanged *)
full_move_swapped(moves_up) ==
    IF moves_up = Up THEN <<PosBOTTOM, AngleBOTTOM>> ELSE <<PosTOP, AngleTOP>>

full_move(moves_up) ==
    IF moves_up = Up THEN <<PosTOP, AngleTOP>> ELSE <<PosBOTTOM, AngleBOTTOM>>

shortened_move(time_moving, moves_up, pos, ang) ==
    IF time_moving >= FULL_TRAVEL_TIME THEN full_move(moves_up)
    ELSE IF moves_up = Up
    THEN <<PosUp(pos, time_moving), AngleUp(ang, time_moving)>>
    ELSE <<PosDown(pos, time_moving), AngleDown(ang, time_moving)>>

shortened_move_overflows(time_moving, moves_up, pos, ang) ==
    /\ time_moving < FULL_TRAVEL_TIME
    /\ moves_up = Up
    /\ \/ AddOverflows(pos, PosDiv(time_moving))
       \/ (time_moving < FULL_TURN_TIME /\ AddOverflows(ang, AngleDiv(time_moving)))

(***************************************************************************)
(* The entries of the StateStore and track_single_press.                   *)
(***************************************************************************)
NoTime == -1
Entry(t, d, p, a) == [time |-> t, dir |-> d, pos |-> p, ang |-> a]

(* states.insert(id, e) *)
Insert(st, id, e) == [b \in (DOMAIN st) \cup {id} |-> IF b = id THEN e ELSE st[b]]

(* variant: t.duration_since(time), which saturates to zero *)
duration_since_swapped(time, t) == IF time > t THEN time - t ELSE 0

(* time.duration_since(t), both held as the time elapsed since them *)
duration_since(time, t) == IF t > time THEN t - time ELSE 0

(* variant: the move in progress is dropped without being applied *)
StoppedUnapplied(e, time) == Entry(NoTime, e.dir, e.pos, e.ang)

(* the entry of a blind whose move in progress is stopped at time *)
Stopped(e, time) ==
    LET pa == shortened_move(duration_since(time, e.time), e.dir, e.pos, e.ang)
    IN  Entry(NoTime, e.dir, pa[1], pa[2])

(* the branch for a blind, after the wind branch has returned *)
track_blind_press(time, goes_up, is_single_step, id, st) ==
    IF is_single_step
    THEN IF id \notin DOMAIN st THEN st
         ELSE IF st[id].time # NoTime
         THEN [st EXCEPT ![id] = Stopped(st[id], time)]
         ELSE [st EXCEPT ![id].ang = IF goes_up = Up THEN step_up(st[id].ang, 1)
                                     ELSE step_down(st[id].ang, 1)]
    ELSE IF id \in DOMAIN st
    THEN LET e == IF st[id].time # NoTime THEN Stopped(st[id], time) ELSE st[id]
         IN  [st EXCEPT ![id] = Entry(time, goes_up, e.pos, e.ang)]
    ELSE LET moveit == IF goes_up = Up THEN Down ELSE Up
             pa == full_move(moveit)
         IN  Insert(st, id, Entry(time, goes_up, pa[1], pa[2]))

(* variant: the wind alarm rewrites only the entries the store holds *)
track_single_press_known(time, goes_up, is_single_step, id, st) ==
    IF id = wind
    THEN [b \in DOMAIN st |-> Entry(time, goes_up, PosTOP, AngleTOP)]
    ELSE track_blind_press(time, goes_up, is_single_step, id, st)

track_single_press(time, goes_up, is_single_step, id, st) ==
    IF id = wind
    THEN [b \in (DOMAIN st) \cup Blinds |->
            IF b \in Blinds THEN Entry(time, goes_up, PosTOP, AngleTOP) ELSE st[b]]
    ELSE track_blind_press(time, goes_up, is_single_step, id, st)

track_single_press_overflows(time, goes_up, is_single_step, id, st) ==
    /\ id # wind
    /\ id \in DOMAIN st
    /\ IF st[id].time # NoTime
       THEN shortened_move_overflows(duration_since(time, st[id].time),
                                     st[id].dir, st[id].pos, st[id].ang)
       ELSE is_single_step /\ goes_up = Up /\ AddOverflows(st[id].ang, 1)

(***************************************************************************)
(* The cEMI codec exercise: a group write is built for an address and a    *)
(* payload and read back with the accessors, and its destination is       *)
(* converted to a blind.                                                   *)
(***************************************************************************)
MaxCemiLen == 2

(* group addresses: the reserved ones, the extremes, and the addresses of  *)
(* the blinds a..h for both kinds of command                               *)
CemiAddrs ==
    {0, 1, 2, 43605, 65535}
    \cup {to_bus_addr(from_port(c), s) : c \in Ports, s \in BOOLEAN}

(* payloads: every single byte that fits six bits and some that do not,    *)
(* and longer ones                                                         *)
CemiPayloads ==
    {<<d>> : d \in 0..63} \cup {<<64>>, <<128>>, <<255>>}
    \cup {p \in SeqsUpTo({0, 1, 255}, MaxCemiLen) : Len(p) # 1}

NoCemiRes == [group_write |-> FALSE, dest |-> CemiErr("none"), data |-> CemiErr("none"),
              blind |-> BusAddrErr]

CemiIdle ==
    /\ caddr = 0 /\ cdata = <<>> /\ cemi = <<>> /\ cres = NoCemiRes /\ cpc = "off"

CemiInit ==
    /\ caddr \in CemiAddrs
    /\ cdata \in CemiPayloads
    /\ cemi = <<>>
    /\ cres = NoCemiRes
    /\ cpc = "new"

CemiBuild ==
    /\ cpc = "new"
    /\ cemi' = create_group_write_cemi(caddr, cdata)
    /\ cpc' = "built"
    /\ UNCHANGED <<lvars, fvars, tvars, pvars, caddr, cdata, cres>>

CemiRead ==
    /\ cpc = "built"
    /\ cres' = [group_write |-> is_group_write(cemi),
                dest |-> get_dest(cemi),
                data |-> get_group_data(cemi),
                blind |-> IF get_dest(cemi).ok THEN from_bus_addr(get_dest(cemi).addr)
                          ELSE BusAddrErr]
    /\ cpc' = "read"
    /\ UNCHANGED <<lvars, fvars, tvars, pvars, caddr, cdata, cemi>>

CemiNext == CemiBuild \/ CemiRead

(***************************************************************************)
(* The reader task on raw telegrams: whatever read_frame returns is handed *)
(* to on_telegram, which returns or panics; a panic ends the task.         *)
(***************************************************************************)
(* group writes to the wind alarm, to address 2, to blind c and to an      *)
(* address outside the command ranges, indicated and confirmed             *)
HandledAddrs == {1, 2, to_bus_addr(from_port(99), FALSE), 43605}

(* an indication with a payload of len bytes after the APCI byte *)
LongWriteInd(dest, payload) ==
    <<KDRIVE_CEMI_L_DATA_IND, 0, 188, 224, 17, 34, dest \div 256, dest % 256,
      Len(payload) + 1, 0, 128>> \o payload

(* the telegrams above and every proper prefix of them *)
RawTelegrams ==
    LET whole == {<<c, 0, 188, 224, s, s, a \div 256, a % 256, 1, 0, 128 + d>> :
                    c \in {KDRIVE_CEMI_L_DATA_IND, 46}, s \in {17, 255},
                    a \in HandledAddrs, d \in {0, 1}}
                 \cup {LongWriteInd(2, <<0, 12>>), LongWriteInd(2, <<0, 12, 13>>)}
    IN  UNION {{SubSeq(t, 1, n) : n \in 1..Len(t)} : t \in whole}

HandleInit ==
    /\ caddr = 0 /\ cdata = <<>>
    /\ cemi \in RawTelegrams
    /\ cres = NoCemiRes
    /\ cpc = "raw"

CemiHandle ==
    /\ cpc = "raw"
    /\ cres' = on_telegram(cemi)
    /\ cpc' = IF on_telegram(cemi).panic THEN "panicked" ELSE "handled"
    /\ UNCHANGED <<lvars, fvars, tvars, pvars, caddr, cdata, cemi>>

HandleNext == CemiHandle

(***************************************************************************)
(* Bounds of the estimator model: full-move and wind events, and advances  *)
(* of the clock while a move is in progress and younger than               *)
(* FULL_TRAVEL_TIME.                                                       *)
(***************************************************************************)
MaxMoves == 2
MaxTicks == 3

(* Duration::from_secs(5) of track_movements, in milliseconds *)
SweepTimeout == 5000

(* the amounts the clock advances by between two inputs: within a turn,   *)
(* a full turn, 10 s, 60 s (3.5 s short of a full travel), a full travel   *)
Ticks == {1200, FULL_TURN_TIME, 10000, 60000, FULL_TRAVEL_TIME}

(* a group write as the device indicates it (L_Data.ind) and as it         *)
(* confirms one of our own (L_Data.con), with a payload of six bits        *)
GroupWriteInd(dest, d) ==
    <<KDRIVE_CEMI_L_DATA_IND, 0, 188, 224, 17, 34, dest \div 256, dest % 256, 1, 0, 128 + d>>
GroupWriteCon(dest, d) ==
    <<46, 0, 188, 224, 255, 255, dest \div 256, dest % 256, 1, 0, 128 + d>>

(* telegrams the bus delivers: the wind alarm with payloads 0, 1 and 63,   *)
(* full moves and single steps of blind c in both directions, indicated    *)
(* or confirmed, single steps up of blind a, and an up command to the low  *)
(* byte of blind c under the high byte 0x12, indicated and confirmed       *)
BlindA == from_port(97)
BlindB == from_port(98)
BlindC == from_port(99)

Telegrams ==
    {GroupWriteInd(1, d) : d \in {0, 1, 63}}
    \cup {GroupWriteInd(to_bus_addr(BlindC, s), d) : s \in BOOLEAN, d \in {Up, Down}}
    \cup {GroupWriteCon(to_bus_addr(BlindC, s), d) : s \in BOOLEAN, d \in {Up, Down}}
    \cup {GroupWriteInd(to_bus_addr(BlindA, TRUE), Up)}
    \cup {GroupWriteInd(4608 + BlindC, Up), GroupWriteCon(4608 + BlindC, Up)}

EmptyStore == [b \in {} |-> Entry(NoTime, Up, 0, 0)]
NoInput == [kind |-> "none", ev |-> NoEvent, moved |-> NoTime, reports |-> {}]

TrackInit ==
    /\ states = EmptyStore
    /\ silence = 0
    /\ moves = 0
    /\ ticks = 0
    /\ tlast = NoInput
    /\ ovf = FALSE

(* the time a move of blind id has been in progress, NoTime if none is *)
Moving(st, id) == IF id \in DOMAIN st THEN st[id].time ELSE NoTime

(***************************************************************************)
(* The observer (mqtt.rs): report(id) publishes under cover/<letter>/ the  *)
(* position, the tilt and the state of the entry of id, or the state       *)
(* "None" if the store has no entry under id.  The letter is computed on   *)
(* a u8: below BUS_START_ADDR the subtraction wraps in a build without     *)
(* overflow checks and panics in one with them.                            *)
(***************************************************************************)
letter(blind) == (blind + 256 - BUS_START_ADDR + 97) % 256
letter_overflows(blind) == blind < BUS_START_ADDR

report(id, st) ==
    IF id \in DOMAIN st
    THEN [letter |-> letter(id), panics |-> letter_overflows(id),
          state |-> IF st[id].time # NoTime
                    THEN (IF st[id].dir = Up THEN "opening" ELSE "closing")
                    ELSE IF st[id].pos = PosTOP THEN "open"
                    ELSE IF st[id].pos = PosBOTTOM THEN "closed"
                    ELSE "stopped",
          position |-> st[id].pos, tilt |-> st[id].ang]
    ELSE [letter |-> letter(id), panics |-> letter_overflows(id),
          state |-> "None", position |-> -1, tilt |-> -1]

(***************************************************************************)
(* A telegram arrives: on_telegram classifies it and sends the event, if   *)
(* any, stamped Instant::now(); track_movements receives it and calls      *)
(* track_single_press, then waits again.                                   *)
(***************************************************************************)
Observe(r) ==
    /\ IF r.ev = NoEvent
       THEN UNCHANGED <<states, silence, ovf>>
       ELSE /\ states' = track_single_press(0, r.ev.dir, r.ev.single, r.ev.id, states)
            /\ silence' = 0
            /\ ovf' = (ovf \/ track_single_press_overflows(0, r.ev.dir, r.ev.single,
                                                           r.ev.id, states))
    /\ tlast' = [kind |-> "telegram", ev |-> r.ev, moved |-> Moving(states, r.ev.id),
                 reports |-> IF r.ev = NoEvent THEN {}
                             ELSE {report(r.ev.id, states')}]

Telegram(data) ==
    \E r \in {on_telegram(data)} :
    \E counted \in {r.ev # NoEvent /\ (r.ev.id = wind \/ ~r.ev.single)} :
        /\ ~r.panic
        /\ r.ev # NoEvent => silence < SweepTimeout
        /\ counted => moves < MaxMoves
        /\ moves' = IF counted THEN moves + 1 ELSE moves
        /\ Observe(r)
        /\ UNCHANGED <<lvars, fvars, cvars, pvars, ticks>>

(***************************************************************************)
(* The receive times out: the sweep over the blinds a..h.                  *)
(***************************************************************************)
(* variant: every move in progress is settled, whatever its age *)
SweepEntryAny(e) ==
    IF e.time # NoTime
    THEN Entry(NoTime, e.dir, full_move(e.dir)[1], full_move(e.dir)[2])
    ELSE e

SweepEntry(e) ==
    IF e.time # NoTime /\ e.time >= FULL_TRAVEL_TIME
    THEN Entry(NoTime, e.dir, full_move(e.dir)[1], full_move(e.dir)[2])
    ELSE e

Sweep ==
    /\ silence >= SweepTimeout
    /\ states' = [b \in DOMAIN states |->
                    IF b \in Blinds THEN SweepEntry(states[b]) ELSE states[b]]
    /\ silence' = 0
    /\ tlast' = [kind |-> "sweep", ev |-> NoEvent, moved |-> NoTime,
                 reports |-> {report(b, states') :
                                b \in {c \in Blinds \cap DOMAIN states :
                                         SweepEntry(states[c]) # states[c]}}]
    /\ UNCHANGED <<lvars, fvars, cvars, pvars, moves, ticks, ovf>>

(***************************************************************************)
(* Time passes.  Elapsed times at or beyond FULL_TRAVEL_TIME all act the   *)
(* same and are held as FULL_TRAVEL_TIME.  The receive has waited silence  *)
(* since the last event; once the 5 s are over the timeout is due, and it  *)
(* is taken before more time passes or another event is received (a tick   *)
(* longer than the 5 s stands for a quiet stretch whose earlier timeouts   *)
(* found nothing to settle).                                               *)
(***************************************************************************)
Elapse(st, d) ==
    [b \in DOMAIN st |->
        IF st[b].time = NoTime THEN st[b]
        ELSE [st[b] EXCEPT !.time = Min(st[b].time + d, FULL_TRAVEL_TIME)]]

Tick(d) ==
    /\ silence < SweepTimeout
    /\ \/ ticks < MaxTicks
       \/ d = FULL_TRAVEL_TIME
       \/ Elapse(states, d) = states
    /\ states' = Elapse(states, d)
    /\ silence' = Min(silence + d, SweepTimeout)
    /\ ticks' = IF Elapse(states, d) = states \/ ticks = MaxTicks THEN ticks ELSE ticks + 1
    /\ UNCHANGED <<lvars, fvars, cvars, pvars, moves, tlast, ovf>>

TrackNext ==
    \/ \E data \in Telegrams : Telegram(data)
    \/ Sweep
    \/ \E d \in Ticks : Tick(d)

(***************************************************************************)
(* The motion planner: move_to_pos, the task that takes the GroupWriter    *)
(* channel and calls group_write, and the confirmations of these writes    *)
(* coming back through on_telegram.                                        *)
(***************************************************************************)
MaxPlans == 2

PlanIds == 1..MaxPlans
TargetPos == {0, 40, 100}
TargetAng == {0, 3, 7}

(* the requests: every target for blind a, and for blind b, which is never *)
(* known at the start, the middle and the lower end                        *)
PlanRequests ==
    {<<BlindA, tp, ta>> : tp \in TargetPos, ta \in TargetAng}
    \cup {<<BlindB, 50, 3>>, <<BlindB, 0, 0>>}

NoPlan == [pc |-> "idle", id |-> BlindA, target_p |-> 0, target_a |-> 0,
           p |-> 0, a |-> 0, dir |-> Up, ttm |-> 0, wake |-> 0,
           cold |-> FALSE, over |-> FALSE, sent |-> <<>>]

PlanIdle ==
    /\ plans = [i \in PlanIds |-> NoPlan]
    /\ kq = <<>>
    /\ wire = <<>>
    /\ echoes = <<>>

(* stores the planner is started on: nothing known, or blind a at rest *)
PlanStores ==
    {EmptyStore}
    \cup {Insert(EmptyStore, BlindA, Entry(NoTime, d, p, a)) :
            d \in {Up, Down}, p \in {0, 40, 100}, a \in {0, 3, 7}}

PlanInit ==
    /\ states \in PlanStores
    /\ silence = 0
    /\ moves = 0
    /\ ticks = 0
    /\ tlast = NoInput
    /\ ovf = FALSE
    /\ PlanIdle

(* plan i does k.send((addr, dir)) and goes on at pc *)
KSend(i, addr, dir, pc) ==
    /\ kq' = Append(kq, <<addr, dir>>)
    /\ plans' = [plans EXCEPT ![i].pc = pc,
                              ![i].sent = Append(@, <<addr, dir>>)]

(* an invocation for blind id has not returned yet *)
Running(id) == \E j \in PlanIds : plans[j].id = id /\ plans[j].pc \notin {"idle", "done"}

(* a request arrives and move_to_pos is spawned for it; the invocations    *)
(* are numbered in the order they are spawned                              *)
PlanRequest(i, id, tp, ta) ==
    /\ plans[i].pc = "idle"
    /\ \A j \in PlanIds : j < i => plans[j].pc # "idle"
    /\ plans' = [plans EXCEPT ![i] = [NoPlan EXCEPT !.pc = "start", !.id = id,
                                                    !.target_p = tp, !.target_a = ta,
                                                    !.over = Running(id)]]
    /\ UNCHANGED <<lvars, fvars, cvars, tvars, kq, wire, echoes>>

(* the state is read; if the blind is unknown it is driven to the closer   *)
(* end and the planner sleeps FULL_TRAVEL_TIME                             *)
PlanStart(i) ==
    LET pl == plans[i] IN
    /\ pl.pc = "start"
    /\ IF pl.id \in DOMAIN states
       THEN /\ plans' = [plans EXCEPT ![i].pc = "pos",
                                      ![i].p = states[pl.id].pos,
                                      ![i].a = states[pl.id].ang]
            /\ UNCHANGED kq
       ELSE LET dir == IF pl.target_p < 50 THEN Down ELSE Up
                addr == to_bus_addr(pl.id, FALSE)
            IN  /\ kq' = Append(kq, <<addr, dir>>)
                /\ plans' = [plans EXCEPT ![i].pc = "assume",
                                          ![i].wake = FULL_TRAVEL_TIME,
                                          ![i].cold = TRUE,
                                          ![i].sent = Append(@, <<addr, dir>>)]
    /\ UNCHANGED <<lvars, fvars, cvars, tvars, wire, echoes>>

(* after that sleep the blind is taken to be at the end it was sent to *)
PlanAssume(i) ==
    LET pl == plans[i] IN
    /\ pl.pc = "assume"
    /\ pl.wake = 0
    /\ plans' = [plans EXCEPT ![i].pc = "pos",
                              ![i].p = IF pl.target_p < 50 THEN PosBOTTOM ELSE PosTOP,
                              ![i].a = IF pl.target_p < 50 THEN AngleBOTTOM ELSE AngleTOP]
    /\ UNCHANGED <<lvars, fvars, cvars, tvars, kq, wire, echoes>>

(* the position phase: a full move for FULL_TRAVEL_TIME * div / 100 *)
PlanPos(i) ==
    LET pl == plans[i]
        dir == IF pl.p > pl.target_p THEN Down ELSE Up
        div == IF pl.p > pl.target_p THEN pl.p - pl.target_p ELSE pl.target_p - pl.p
        ttm == (FULL_TRAVEL_TIME * div) \div 100
    IN
    /\ pl.pc = "pos"
    /\ IF div > 0
       THEN /\ kq' = Append(kq, <<to_bus_addr(pl.id, FALSE), dir>>)
            /\ plans' = [plans EXCEPT ![i].pc = "pos_sleep", ![i].dir = dir,
                                      ![i].ttm = ttm, ![i].wake = ttm,
                                      ![i].sent = Append(@, <<to_bus_addr(pl.id, FALSE), dir>>)]
       ELSE /\ plans' = [plans EXCEPT ![i].pc = "angle", ![i].dir = dir]
            /\ UNCHANGED kq
    /\ UNCHANGED <<lvars, fvars, cvars, tvars, wire, echoes>>

PlanPosWake(i) ==
    LET pl == plans[i]
        pa == shortened_move(pl.ttm, pl.dir, pl.p, pl.a)
    IN
    /\ pl.pc = "pos_sleep"
    /\ pl.wake = 0
    /\ plans' = [plans EXCEPT ![i].pc = "angle", ![i].p = pa[1], ![i].a = pa[2]]
    /\ UNCHANGED <<lvars, fvars, cvars, tvars, kq, wire, echoes>>

(* the angle phase: a stop if the angle is the target, else a full move    *)
(* for FULL_TURN_TIME * div / 8                                            *)
PlanAngle(i) ==
    LET pl == plans[i]
        dir == IF pl.a > pl.target_a THEN Down ELSE Up
        div == IF pl.a > pl.target_a THEN pl.a - pl.target_a ELSE pl.target_a - pl.a
        ttm == (FULL_TURN_TIME * div) \div 8
    IN
    /\ pl.pc = "angle"
    /\ IF pl.a = pl.target_a
       THEN KSend(i, to_bus_addr(pl.id, TRUE), pl.dir, "done")
       ELSE /\ kq' = Append(kq, <<to_bus_addr(pl.id, FALSE), dir>>)
            /\ plans' = [plans EXCEPT ![i].pc = "angle_sleep", ![i].dir = dir,
                                      ![i].ttm = ttm, ![i].wake = ttm,
                                      ![i].sent = Append(@, <<to_bus_addr(pl.id, FALSE), dir>>)]
    /\ UNCHANGED <<lvars, fvars, cvars, tvars, wire, echoes>>

PlanAngleWake(i) ==
    LET pl == plans[i] IN
    /\ pl.pc = "angle_sleep"
    /\ pl.wake = 0
    /\ KSend(i, to_bus_addr(pl.id, TRUE), pl.dir, "done")
    /\ UNCHANGED <<lvars, fvars, cvars, tvars, wire, echoes>>

(* time passes until the first sleeping planner is due; a write and its    *)
(* confirmation take milliseconds, so none is outstanding by then          *)
Sleepers == {i \in PlanIds : plans[i].wake > 0}

PlanSleep ==
    /\ Sleepers # {}
    /\ silence < SweepTimeout
    /\ kq = <<>> /\ echoes = <<>>
    /\ \E j \in Sleepers :
         /\ \A i \in Sleepers : plans[j].wake <= plans[i].wake
         /\ plans' = [i \in PlanIds |->
                        IF i \in Sleepers
                        THEN [plans[i] EXCEPT !.wake = plans[i].wake - plans[j].wake]
                        ELSE plans[i]]
         /\ states' = Elapse(states, plans[j].wake)
         /\ silence' = Min(silence + plans[j].wake, SweepTimeout)
    /\ UNCHANGED <<lvars, fvars, cvars, moves, ticks, tlast, ovf, kq, wire, echoes>>

(* the writer task: receiver.recv() then group_write(addr, &[d1 as u8]);   *)
(* the device confirms the write                                           *)
WriterSend ==
    /\ kq # <<>>
    /\ wire' = Append(wire, create_group_write_cemi(Head(kq)[1], <<Head(kq)[2]>>))
    /\ echoes' = Append(echoes, GroupWriteCon(Head(kq)[1], Head(kq)[2]))
    /\ kq' = Tail(kq)
    /\ UNCHANGED <<lvars, fvars, cvars, tvars, plans>>

(* the confirmation is read and handed to on_telegram *)
Echo ==
    /\ echoes # <<>>
    /\ \E r \in {on_telegram(Head(echoes))} :
         /\ ~r.panic
         /\ r.ev # NoEvent => silence < SweepTimeout
         /\ Observe(r)
    /\ echoes' = Tail(echoes)
    /\ UNCHANGED <<lvars, fvars, cvars, moves, ticks, plans, kq, wire>>

PlanNext ==
    \/ \E i \in PlanIds, r \in PlanRequests : PlanRequest(i, r[1], r[2], r[3])
    \/ \E i \in PlanIds : PlanStart(i)
    \/ \E i \in PlanIds : PlanAssume(i)
    \/ \E i \in PlanIds : PlanPos(i)
    \/ \E i \in PlanIds : PlanPosWake(i)
    \/ \E i \in PlanIds : PlanAngle(i)
    \/ \E i \in PlanIds : PlanAngleWake(i)
    \/ PlanSleep
    \/ WriterSend
    \/ Echo
    \/ Sweep

(***************************************************************************)
(* The writer task of async_main on the link: the tasks spawned after open *)
(* send requests into the GroupWriter channel; the writer task receives    *)
(* them one by one and calls group_write, and panics on an error           *)
(* (.expect("write err")), which ends it.                                  *)
(***************************************************************************)
MaxReqs == 3

(* the n-th request sent into the channel: the blinds a, b, c, ... in      *)
(* turn, a full move down or a single step up                              *)
WriterReq(n) ==
    <<to_bus_addr(from_port(97 + ((n - 1) % 8)), n % 2 = 0), IF n % 2 = 0 THEN Up ELSE Down>>

(* k.send((addr, dir)) by a planner or a connection handler *)
Enqueue ==
    /\ step = RunStep
    /\ sends + Len(kq) < MaxReqs
    /\ kq' = Append(kq, WriterReq(sends + Len(kq) + 1))
    /\ UNCHANGED <<lvars, fvars, cvars, tvars, plans, wire, echoes>>

(* variant: the result of group_write is dropped and the loop goes on *)
WriterRecvUnchecked ==
    /\ mpc = "idle" /\ step = RunStep /\ sends < MaxSends
    /\ kq # <<>>
    /\ cur' = <<FT12_DATA_REQUEST, create_group_write_cemi(Head(kq)[1], <<Head(kq)[2]>>)>>
    /\ sends' = sends + 1
    /\ mpc' = "send"
    /\ kq' = Tail(kq)
    /\ UNCHANGED <<fvars, cvars, tvars, plans, wire, echoes,
                   portv, rx, tx, step, mres, expv, recvv, devv, histv>>

(* receiver.recv() returns the oldest request and group_write is called;   *)
(* the loop is still running: no earlier group_write returned an error     *)
WriterRecv ==
    /\ mpc = "idle" /\ step = RunStep /\ sends < MaxSends
    /\ sends > 0 => mres = "Ok"
    /\ kq # <<>>
    /\ cur' = <<FT12_DATA_REQUEST, create_group_write_cemi(Head(kq)[1], <<Head(kq)[2]>>)>>
    /\ sends' = sends + 1
    /\ mpc' = "send"
    /\ kq' = Tail(kq)
    /\ UNCHANGED <<fvars, cvars, tvars, plans, wire, echoes,
                   portv, rx, tx, step, mres, expv, recvv, devv, histv>>

(***************************************************************************)
(* The link: open (reset, initialization script, start of the receiver     *)
(* thread), then group writes, the receiver thread and the device.         *)
(***************************************************************************)
vars == <<lvars, fvars, xvars>>

FrameIdle ==
    /\ fctrl = 0 /\ fdata = <<>> /\ fbytes = <<>>
    /\ fflip = NoFlip /\ fres = NoRes /\ fpc = "off"

Init == LinkInit /\ FrameIdle /\ CemiIdle /\ TrackInit /\ PlanIdle

OpenSendNext ==
    \/ ResetWrite \/ ResetWriteFail
    \/ ResetAckTimeout \/ ResetAckReadError \/ ResetAckRead
    \/ SendWrite \/ SendWriteFail \/ SendPoisoned
    \/ SendAckTimeout \/ SendAckReadError \/ SendAckRead
    \/ ExpLock \/ ExpTimeout \/ ExpReadError \/ ExpExhausted
    \/ ExpReadMore \/ ExpReadMatch \/ ExpReadMatchAckFail \/ ExpReadUnexpected
    \/ StartReceiver

MainNext ==
    \/ OpenSendNext
    \/ \E addr \in GroupAddrs, data \in GroupData : GroupWrite(addr, data)

RecvNext ==
    \/ RecvLock \/ RecvTimeout \/ RecvReadError
    \/ RecvFirstRead \/ RecvHeader \/ RecvRest
    \/ RecvAck \/ RecvAckTimedOut \/ RecvAckFail

DevNext ==
    \/ \E b \in AckBytes : DevAck(b)
    \/ \E f \in UNION {RespMenu(k) : k \in 1..InitSteps} : DevRespond(f)
    \/ DevRetransmit
    \/ \E f \in RunMenu : DevIndicate(f)
    \/ \E n \in SplitPoints \cup {Len(dq)} : DevPush(n)

Next == MainNext \/ RecvNext \/ DevNext

(* the link with the writer task of async_main as the caller of group_write *)
WriterNext == OpenSendNext \/ RecvNext \/ DevNext \/ Enqueue \/ WriterRecv

Spec == Init /\ [][Next]_vars

FrameSpecInit == FrameInit /\ CemiIdle /\ TrackInit /\ PlanIdle

FrameSpec == FrameSpecInit /\ [][FrameNext]_vars

(* the link with the scheduling of its threads: the main thread and the    *)
(* receiver thread keep running, and the device sends on what it began     *)
LinkFairSpec ==
    /\ Init
    /\ [][Next]_vars
    /\ WF_vars(MainNext)
    /\ WF_vars(RecvNext)
    /\ WF_vars(\E n \in SplitPoints \cup {Len(dq)} : DevPush(n))

WriterSpecInit == LinkInit /\ FrameIdle /\ CemiIdle /\ TrackInit /\ PlanIdle

WriterSpec == WriterSpecInit /\ [][WriterNext]_vars

(* the estimator on its own, fed by the telegrams of the bus *)
TrackSpecInit == LinkInit /\ FrameIdle /\ CemiIdle /\ TrackInit /\ PlanIdle

TrackSpec == TrackSpecInit /\ [][TrackNext]_vars

(* the same with the scheduling of the estimator loop: time passes, and a  *)
(* receive that stays without an event for 5 s times out and sweeps        *)
TrackFairSpec ==
    /\ TrackSpecInit
    /\ [][TrackNext]_vars
    /\ WF_vars(\E d \in Ticks : Tick(d))
    /\ WF_vars(Sweep)

(* the cEMI codec on its own *)
CemiSpecInit == LinkInit /\ FrameIdle /\ CemiInit /\ TrackInit /\ PlanIdle

CemiSpec == CemiSpecInit /\ [][CemiNext]_vars

(* the planner with the writer task and the estimator *)
HandleSpecInit == LinkInit /\ FrameIdle /\ HandleInit /\ TrackInit /\ PlanIdle

HandleSpec == HandleSpecInit /\ [][HandleNext]_vars

PlanSpecInit == LinkInit /\ FrameIdle /\ CemiIdle /\ PlanInit

PlanSpec == PlanSpecInit /\ [][PlanNext]_vars

(* positions of the data bytes inside the serialized frame *)
DataPortion == 6..(5 + Len(fdata))

(***************************************************************************)
(* C2: Framing round trip. For every control byte and payload of 0..254    *)
(* bytes, parsing the serialized frame gives back (control, data), and the *)
(* serialized bytes start with 0x68, end with 0x16, carry L = |data|+1     *)
(* twice and the checksum (control + sum(data)) mod 256.                   *)
(***************************************************************************)
C2_RoundTrip ==
    /\ fpc # "new" /\ fflip = NoFlip =>
          /\ fbytes[1] = 104
          /\ fbytes[Len(fbytes)] = 22
          /\ fbytes[2] = Len(fdata) + 1
          /\ fbytes[3] = Len(fdata) + 1
          /\ fbytes[Len(fbytes) - 1] = (fctrl + SumBytes(fdata)) % 256
    /\ fpc = "parsed" /\ fflip = NoFlip =>
          /\ fres.ok
          /\ fres.control = fctrl
          /\ fres.data = fdata

(***************************************************************************)
(* C3: Checksum rejection. For every valid serialized frame, inverting any *)
(* single bit of any byte of its data portion makes from_bytes fail with   *)
(* ChecksumMismatch.                                                       *)
(***************************************************************************)
C3_ChecksumRejection ==
    (/\ fpc = "parsed"
     /\ fflip # NoFlip
     /\ fflip[1] \in DataPortion
     /\ from_bytes(to_bytes(fctrl, fdata)).ok)
        => (~fres.ok /\ fres.err = "ChecksumMismatch")

C3_Witness ==
    /\ fpc = "parsed"
    /\ fflip # NoFlip
    /\ fflip[1] \in DataPortion
    /\ Len(fdata) = MaxDataLen
    /\ from_bytes(to_bytes(fctrl, fdata)).ok
    /\ ~fres.ok

(***************************************************************************)
(* C1: Once a complete frame has been written (data frame or reset) or     *)
(* read (indication) by the host, no other frame transfer begins before    *)
(* the acknowledge 0xE5 of that frame has been read (frames the host sent) *)
(* or written (frames the host received), in every interleaving of the     *)
(* sender and the receiver thread, also after an ack timeout.              *)
(***************************************************************************)
C1_AckBeforeNextTransfer == ~overlap

(***************************************************************************)
(* C4: Send parity progression. The k-th successful group write after open *)
(* uses control byte 0x73 when k is odd and 0x53 when k is even.           *)
(***************************************************************************)
C4_SendParity ==
    \A k \in 1..Len(okSends) : okSends[k] = IF k % 2 = 1 THEN 115 ELSE 83

(***************************************************************************)
(* C5: Receive parity. A received data frame is accepted only if its       *)
(* control byte has the expected parity, which toggles after each accepted *)
(* frame: of two consecutive indications with the same control byte the    *)
(* second one is not accepted.                                             *)
(***************************************************************************)
C5_RecvParity ==
    \A i \in 1..(Len(rxlog) - 1) :
        ~(/\ rxlog[i].res = "Ok"
          /\ rxlog[i + 1].res = "Ok"
          /\ rxlog[i].frame[5] = rxlog[i + 1].frame[5])

(***************************************************************************)
(* C6: Ack rule of the host-initiated transactions. send_frame and         *)
(* send_reset write the whole frame and then read one byte; the            *)
(* transaction succeeds exactly if that byte is 0xE5, another byte gives   *)
(* the acknowledge-mismatch error, a failed write or read gives a write or *)
(* read error, and the ack read takes no more than one byte off the line.  *)
(***************************************************************************)
C6_AckRule ==
    /\ mpc = "send_wait" => tx[Len(tx)] = to_bytes(cur[1], cur[2])
    /\ mpc = "reset_wait" => tx[Len(tx)] = <<16, 64, 64, 22>>
    /\ lastTx.kind # "none" =>
          /\ (lastTx.result = "Ok") <=> (lastTx.wrote /\ lastTx.ack = 229)
          /\ (lastTx.wrote /\ lastTx.ack \notin {-1, 229}) =>
                lastTx.result = IF lastTx.kind = "data" THEN "WrongAcknowledge"
                                ELSE "WrongResetAcknowledge"
          /\ ~lastTx.wrote =>
                /\ lastTx.result = IF lastTx.kind = "data" THEN "WriteError"
                                   ELSE "ResetRequestFailed"
                /\ lastTx.consumed = 0
          /\ (lastTx.wrote /\ lastTx.ack = -1) =>
                /\ lastTx.result \in {"ReadError", "ResetAcknowledgeFailed",
                                      "TimeoutWaitingForDeviceReadyIndication"}
                /\ lastTx.consumed = 0
          /\ lastTx.consumed <= 1

(* a group write whose ack read took the first byte of an indication and   *)
(* left the rest of it on the line                                         *)
C6_Witness ==
    /\ step = RunStep
    /\ lastTx.kind = "data"
    /\ lastTx.wrote
    /\ lastTx.ack = 104
    /\ lastTx.consumed = 1
    /\ lastTx.result = "WrongAcknowledge"
    /\ rx # <<>>

(***************************************************************************)
(* C7: Ack interleaving. When the device delivers two indications back to  *)
(* back, the reader takes only the bytes of the first one off the line     *)
(* before it has written the acknowledge: the bytes read in one call of    *)
(* read_and_ack_whole_frame never hold a valid frame followed by the start *)
(* of the next one.                                                        *)
(***************************************************************************)
C7_AckInterleaving ==
    \A f \in NextMenu :
        ~(/\ rpc # "off"
          /\ Len(buf) > Len(f)
          /\ SubSeq(buf, 1, Len(f)) = f
          /\ buf[Len(f) + 1] = 104)

(***************************************************************************)
(* C8: Garbled frame. For a received frame with a wrong checksum byte the  *)
(* reader writes no acknowledge: no step taken while the reader holds such *)
(* a frame completely read writes to the line.                             *)
(***************************************************************************)
C8_NoAckForBadChecksum ==
    [][(rpc = "ack" /\ process_frame(buf).res = "ChecksumMismatch") => tx' = tx]_vars

(***************************************************************************)
(* C9: Stray ack on receive. When the first byte the receive path reads is *)
(* 0xE5, the byte is discarded and reception goes on: the receive loop     *)
(* does not end on it.                                                     *)
(***************************************************************************)
C9_StrayAckDiscarded ==
    ~(rpc = "exited" /\ rerr = "InvalidData" /\ buf[1] = 229)

(***************************************************************************)
(* C10: A framing error of a received frame never ends the receive loop:   *)
(* the loop does not end on a frame whose start byte is wrong.             *)
(***************************************************************************)
C10_FramingErrorNotFatal ==
    ~(rpc = "exited" /\ rerr = "InvalidData" /\ buf[1] # 229)

(***************************************************************************)
(* The writes of a successful open, in order: the reset request, then for  *)
(* each step of the script the request and the acknowledge of its response.*)
(***************************************************************************)
InitWrites ==
    [i \in 1..(2 * InitSteps + 1) |->
        IF i = 1 THEN <<16, 64, 64, 22>>
        ELSE IF i % 2 = 0 THEN to_bytes(InitReq[i \div 2][1], InitReq[i \div 2][2])
        ELSE <<229>>]

(* the frame expect_specific_response found in its buffer is response k *)
Validated(k) ==
    LET frame == extract_complete_frame(rbuf)
    IN  /\ frame # <<>>
        /\ from_bytes(frame).ok
        /\ from_bytes(frame).control = InitResp[k][1]
        /\ from_bytes(frame).data = InitResp[k][2]

(***************************************************************************)
(* C11: Initialization ordering. open performs, in this order, the reset   *)
(* exchange and the six request/response pairs (request control bytes      *)
(* 0x73, 0x53, 0x73, 0x53, 0x73, 0x53); request k+1 is written only after  *)
(* response k has been validated and acknowledged with 0xE5; the receive   *)
(* loop is started only after the sixth response has been acknowledged and *)
(* reads nothing before that.                                              *)
(***************************************************************************)
C11_InitOrdering ==
    /\ \A i \in 1..Len(tx) : i <= 2 * InitSteps + 1 => tx[i] = InitWrites[i]
    /\ \A k \in 1..InitSteps :
          InitReq[k][1] = IF k % 2 = 1 THEN 115 ELSE 83
    /\ (step = 1 /\ mpc = "send") =>
          (lastTx.kind = "reset" /\ lastTx.ack = 229 /\ Len(tx) = 1)
    /\ (step \in 1..InitSteps /\ mpc = "send") => Len(tx) = 2 * step - 1
    /\ (step \in 2..InitSteps /\ mpc \in {"send", "send_wait"}) => Validated(step - 1)
    /\ mpc = "start_recv" => Validated(InitSteps)
    /\ rpc # "off" =>
          (step = RunStep /\ Len(tx) >= 2 * InitSteps + 1 /\ Validated(InitSteps))
    /\ step < RunStep => (rpc = "off" /\ buf = <<>> /\ rxlog = <<>>)

(* open has returned and the receiver thread reads its first frame *)
C11_Witness ==
    /\ step = RunStep
    /\ rpc = "rest"
    /\ Len(tx) = 2 * InitSteps + 1
    /\ sends = 0

(* responses to step k other than the expected one *)
BadResp(k) == RespMenu(k) \ {DevFrame(InitResp[k][1], InitResp[k][2], "good")}

(***************************************************************************)
(* C12: Initialization failure is fatal. If the reset acknowledge is not   *)
(* 0xE5, or the response to step k differs from the expected (control,     *)
(* data) or does not arrive within the bound of the step, open returns an  *)
(* error: no request of a later step is written, the differing response is *)
(* not acknowledged and the receive loop is never started.                 *)
(***************************************************************************)
C12_InitFailureFatal ==
    /\ (lastTx.kind = "reset" /\ lastTx.wrote /\ lastTx.ack # 229) =>
          (mpc = "failed" /\ step = 0 /\ Len(tx) = 1)
    /\ (step < RunStep /\ mres \notin {"none", "Ok"}) => mpc = "failed"
    /\ mpc = "failed" =>
          (mres \notin {"none", "Ok"} /\ rpc = "off" /\ step < RunStep)
    /\ (step \in 1..InitSteps /\ dlast \in BadResp(step)) =>
          /\ mpc \in {"send_wait", "expect", "exp_read", "failed"}
          /\ Len(tx) = 2 * step
          /\ tx[Len(tx)] = to_bytes(InitReq[step][1], InitReq[step][2])
          /\ rpc = "off"

(* the response to the third request carried other data: open has failed *)
C12_Witness ==
    /\ mpc = "failed"
    /\ step = 3
    /\ dlast = DevFrame(InitResp[3][1], <<0>>, "good")
    /\ mres = "UnexpectedResponseDataDuringInitialization"
    /\ rx = <<>>

(***************************************************************************)
(* C13: cEMI one-byte group-write round trip.  For every group address and *)
(* every payload byte d in 0..63, create_group_write_cemi(addr, [d]) is    *)
(* the 11 bytes 11 00 BC E0 00 00 addr_hi addr_lo 01 00 (0x80|d); read     *)
(* back, like the frame 29 00 bc e0 11 22 10 aa 01 00 81, it is a group    *)
(* write with get_dest = addr and get_group_data = [d].                    *)
(***************************************************************************)
OneSixBitByte == Len(cdata) = 1 /\ cdata[1] \in 0..63

ExampleFrame == <<41, 0, 188, 224, 17, 34, 16, 170, 1, 0, 129>>

C13_CemiOneByteRoundTrip ==
    /\ (cpc \in {"built", "read"} /\ OneSixBitByte)
           => cemi = <<17, 0, 188, 224, 0, 0, caddr \div 256, caddr % 256,
                       1, 0, 128 + cdata[1]>>
    /\ (cpc = "read" /\ OneSixBitByte)
           => /\ cres.group_write
              /\ cres.dest = [ok |-> TRUE, addr |-> caddr]
              /\ cres.data = [ok |-> TRUE, msg |-> cdata]
    /\ cpc = "read"
           => /\ get_msg_code(ExampleFrame) = KDRIVE_CEMI_L_DATA_IND
              /\ is_group_write(ExampleFrame)
              /\ get_dest(ExampleFrame) = [ok |-> TRUE, addr |-> 4266]
              /\ get_group_data(ExampleFrame) = [ok |-> TRUE, msg |-> <<1>>]

C13_Witness ==
    /\ cpc = "read"
    /\ caddr = 4529
    /\ cdata = <<63>>
    /\ cemi = <<17, 0, 188, 224, 0, 0, 17, 177, 1, 0, 191>>
    /\ cres.data = [ok |-> TRUE, msg |-> <<63>>]

(***************************************************************************)
(* C14: Estimator range invariant.  After any sequence of bus events       *)
(* (wind, full move, single step) and sweeps, every entry of the state     *)
(* store has its position in 0..100 and its angle in 0..7, and no addition *)
(* on the 8-bit position or angle has overflowed.                          *)
(***************************************************************************)
C14_EstimatorRange ==
    /\ \A b \in DOMAIN states :
         /\ states[b].pos \in 0..100
         /\ states[b].ang \in 0..AngleMAX
    /\ ~ovf

(* blind c was stopped 1.2 s into a move up from the bottom *)
C14_Witness ==
    /\ BlindC \in DOMAIN states
    /\ states[BlindC] = Entry(NoTime, Up, 1, 3)
    /\ tlast.kind = "telegram"
    /\ tlast.ev.single

FullDownC == {GroupWriteInd(to_bus_addr(BlindC, FALSE), Down),
              GroupWriteCon(to_bus_addr(BlindC, FALSE), Down)}

SingleStepC == {GroupWriteInd(to_bus_addr(BlindC, TRUE), d) : d \in {Up, Down}}
               \cup {GroupWriteCon(to_bus_addr(BlindC, TRUE), d) : d \in {Up, Down}}

C16_Monotonicity ==
    [][ /\ \A data \in FullDownC :
             (moves' # moves /\ Telegram(data))
                 => /\ BlindC \in DOMAIN states'
                    /\ states'[BlindC].time = 0
                    /\ states'[BlindC].dir = Down
        /\ \A data \in SingleStepC :
             ( /\ BlindC \in DOMAIN states
               /\ states[BlindC].dir = Down
               /\ states[BlindC].time # NoTime
               /\ states[BlindC].time >= FULL_TRAVEL_TIME
               /\ Telegram(data) )
                 => states'[BlindC] = Entry(NoTime, Down, PosBOTTOM, AngleBOTTOM)
      ]_vars

(* a single step up stopped blind c FULL_TRAVEL_TIME into its move down,   *)
(* which had started from a known entry (the second full move counted)     *)
C16_Witness ==
    /\ tlast.kind = "telegram"
    /\ tlast.ev = Event(Up, TRUE, BlindC)
    /\ tlast.moved = FULL_TRAVEL_TIME
    /\ moves = 2
    /\ BlindC \in DOMAIN states
    /\ states[BlindC] = Entry(NoTime, Down, PosBOTTOM, AngleBOTTOM)

(***************************************************************************)
(* C17: Estimator angle independence.  Starting from an empty store,       *)
(* after (t0, Up, full move, blind) followed by (t0 + FULL_TURN_TIME,      *)
(* single step, Down, blind) the blind's angle is 7 and no move is in      *)
(* progress; its position is 100 * FULL_TURN_TIME / FULL_TRAVEL_TIME       *)
(* rounded down, which is 4.                                               *)
(***************************************************************************)
(* the two events were the only ones that changed the store: one counted   *)
(* move, blind c the only known blind and moving Up when it was stopped    *)
C17_Case ==
    /\ tlast.kind = "telegram"
    /\ tlast.ev = Event(Down, TRUE, BlindC)
    /\ tlast.moved = FULL_TURN_TIME
    /\ moves = 1
    /\ DOMAIN states = {BlindC}
    /\ states[BlindC].dir = Up

C17_AngleIndependence ==
    C17_Case => states[BlindC] = Entry(NoTime, Up, 4, AngleTOP)

C17_Witness ==
    /\ C17_Case
    /\ states[BlindC] = Entry(NoTime, Up, (100 * FULL_TURN_TIME) \div FULL_TRAVEL_TIME, 7)

(* the claim as stated: angle 7 and position 0 *)
C17_AsStated ==
    C17_Case => (states[BlindC].ang = 7 /\ states[BlindC].pos = 0)

(***************************************************************************)
(* C18: Stop-on-tick.  Starting from an empty store, after the receiver    *)
(* sees (t0, Down, full move, c) and then (t0 + 10 s, single step, Up, c), *)
(* the entry for c is: no move in progress, direction Down (a stop leaves  *)
(* the direction of the move it stops), position 85 (100 minus             *)
(* 100 * 10 / 63.5 rounded down), angle 0.                                 *)
(***************************************************************************)
C18_Case ==
    /\ tlast.kind = "telegram"
    /\ tlast.ev = Event(Up, TRUE, BlindC)
    /\ tlast.moved = 10000
    /\ moves = 1
    /\ DOMAIN states = {BlindC}
    /\ states[BlindC].dir = Down

C18_StopOnTick ==
    C18_Case => states[BlindC] = Entry(NoTime, Down, 85, AngleBOTTOM)

C18_Witness ==
    /\ C18_Case
    /\ states[BlindC].time = NoTime
    /\ states[BlindC].pos = 100 - (100 * 10000) \div FULL_TRAVEL_TIME
    /\ states[BlindC].ang = 0

(* the claim as stated: no move, last direction Up, position 84, angle 0, *)
(* for the step that processes the single step Up 10 s into the move Down  *)
(* that made blind c known                                                 *)
C18_AsStated ==
    [][ ( /\ moves = 1
          /\ DOMAIN states = {BlindC}
          /\ states[BlindC] = Entry(10000, Down, PosTOP, AngleTOP)
          /\ \E data \in SingleStepC : get_group_data(data).msg = <<Up>> /\ Telegram(data) )
            => states'[BlindC] = Entry(NoTime, Up, 84, AngleBOTTOM)
      ]_vars

(***************************************************************************)
(* C19: Sweep enforcement.  Whenever an entry has a move in progress whose *)
(* start lies at least FULL_TRAVEL_TIME in the past, the estimator loop    *)
(* eventually clears the move-start and sets position and angle to the     *)
(* endpoint of the entry's direction, for every arrival pattern of bus     *)
(* events, also when events for other blinds keep arriving less than 5 s   *)
(* apart.                                                                  *)
(***************************************************************************)
Overdue(b) ==
    /\ b \in DOMAIN states
    /\ states[b].time # NoTime
    /\ states[b].time >= FULL_TRAVEL_TIME

C19_SweepEnforcement == Overdue(BlindC) ~> ~Overdue(BlindC)

(***************************************************************************)
(* C20: Planner endpoint short-circuit.  For every estimator state, known  *)
(* or unknown, a move-to request with target (position 0, angle 0) emits   *)
(* exactly one group write, a full move Down to 0x1000|blind, and returns; *)
(* one with target (100, 7) emits exactly one full move Up and returns.    *)
(* After a cold open the request (a, 0, 0) produces exactly one frame,     *)
(* with destination 0x10AA and payload 0x01.                               *)
(***************************************************************************)
C20_EndpointShortCircuit ==
    \A i \in PlanIds :
        LET pl == plans[i] IN
        /\ (pl.pc = "done" /\ pl.target_p = PosBOTTOM /\ pl.target_a = AngleBOTTOM)
              => pl.sent = << <<to_bus_addr(pl.id, FALSE), Down>> >>
        /\ (pl.pc = "done" /\ pl.target_p = PosTOP /\ pl.target_a = AngleTOP)
              => pl.sent = << <<to_bus_addr(pl.id, FALSE), Up>> >>
        /\ ( /\ pl.pc = "done" /\ pl.cold /\ kq = <<>>
             /\ pl.id = BlindA /\ pl.target_p = 0 /\ pl.target_a = 0 )
              => wire = << create_group_write_cemi(4266, <<1>>) >>

(***************************************************************************)
(* C28: cEMI multi-byte group-write round trip.  For a payload of 2..14    *)
(* bytes, create_group_write_cemi(addr, data) is the header followed by    *)
(* the length 1 + |data|, TPCI 0x00, APCI low 0x80 and all |data| payload  *)
(* bytes, and get_group_data on it returns exactly the payload.            *)
(***************************************************************************)
MultiByte == Len(cdata) \in 2..KDRIVE_MAX_GROUP_VALUE_LEN

C28_CemiMultiByteRoundTrip ==
    /\ (cpc \in {"built", "read"} /\ MultiByte)
           => cemi = <<17, 0, 188, 224, 0, 0, caddr \div 256, caddr % 256,
                       1 + Len(cdata), 0, 128>> \o cdata
    /\ (cpc = "read" /\ MultiByte)
           => cres.data = [ok |-> TRUE, msg |-> cdata]

(***************************************************************************)
(* C30: a single-step event on a blind with no move in progress.  If the   *)
(* blind has an entry, its angle moves by one unit in the commanded        *)
(* direction, saturating at 0 and 7, and its position, last direction and  *)
(* absent move start stay as they are; if it has none, the store stays as  *)
(* it is; the entries of all other blinds are unchanged in both cases.     *)
(***************************************************************************)
SingleSteps == {data \in Telegrams : on_telegram(data).ev.single}

C30_SingleStepIdle ==
    [][\A data \in SingleSteps :
         LET ev == on_telegram(data).ev
         IN  (Moving(states, ev.id) = NoTime /\ Telegram(data))
                 => IF ev.id \in DOMAIN states
                    THEN /\ DOMAIN states' = DOMAIN states
                         /\ states'[ev.id].ang =
                                IF ev.dir = Up
                                THEN (IF states[ev.id].ang < 7
                                      THEN states[ev.id].ang + 1 ELSE 7)
                                ELSE (IF states[ev.id].ang > 0
                                      THEN states[ev.id].ang - 1 ELSE 0)
                         /\ states'[ev.id].pos = states[ev.id].pos
                         /\ states'[ev.id].dir = states[ev.id].dir
                         /\ states'[ev.id].time = NoTime
                         /\ \A b \in DOMAIN states \ {ev.id} : states'[b] = states[b]
                    ELSE states' = states]_vars

C30_Witness ==
    /\ tlast.kind = "telegram"
    /\ tlast.ev = Event(Down, TRUE, BlindC)
    /\ tlast.moved = NoTime
    /\ BlindC \in DOMAIN states
    /\ states[BlindC] = Entry(NoTime, Up, PosTOP, 5)
    /\ BlindA \in DOMAIN states

(***************************************************************************)
(* C29: event classification.  A telegram puts an event on the channel to  *)
(* the estimator only if it is (a) an L_Data.ind group write to address 1  *)
(* with a nonzero payload, or (b) an L_Data.ind group write with a         *)
(* one-byte payload or (c) an L_Data.con of a command of our own, to a     *)
(* destination in 0x10AA..0x10B1 or 0x11AA..0x11B1; every other telegram,  *)
(* in particular one to a high byte other than 0x10 and 0x11, puts none.   *)
(***************************************************************************)
CoverAddrs == {to_bus_addr(b, s) : b \in Blinds, s \in BOOLEAN}

TelegramDest(data) == data[7] * 256 + data[8]

WindAlarmInd(data) ==
    /\ data[1] = KDRIVE_CEMI_L_DATA_IND /\ is_group_write(data)
    /\ TelegramDest(data) = 1
    /\ data[9] = 1 /\ data[11] % 64 # 0

CoverCommand(data) ==
    /\ \/ data[1] = KDRIVE_CEMI_L_DATA_IND /\ is_group_write(data) /\ data[9] = 1
       \/ data[1] = 46 /\ SubSeq(data, 5, 6) = <<255, 255>>
    /\ TelegramDest(data) \in CoverAddrs

C29_EventClassification ==
    [][\A data \in Telegrams :
         (on_telegram(data).ev # NoEvent /\ Telegram(data))
             => (WindAlarmInd(data) \/ CoverCommand(data))]_vars

Quiet == kq = <<>> /\ echoes = <<>>

Near(x, y, d) == x - y <= d /\ y - x <= d

C21_PlannerFromUnknown ==
    \A i \in PlanIds :
        LET pl == plans[i] IN
        ( /\ pl.pc = "done" /\ pl.cold /\ Quiet
          /\ \A j \in PlanIds \ {i} : plans[j].pc = "idle" )
            => /\ pl.id \in DOMAIN states
               /\ states[pl.id].time = NoTime
               /\ Near(states[pl.id].pos, pl.target_p, 1)
               /\ Near(states[pl.id].ang, pl.target_a, 1)
               /\ (pl.id = BlindB /\ pl.target_p = 50 /\ pl.target_a = 3)
                      => states[pl.id].dir = Down

(***************************************************************************)
(* C22: planner atomicity.  When a move-to invocation for a blind is       *)
(* spawned while an earlier one for the same blind has not returned, the   *)
(* later one wins: after both have returned and every confirmation has     *)
(* gone through the estimator, the entry of the blind has no move in       *)
(* progress and is at the later invocation's target, to within the three   *)
(* position units and the angle unit that the final angle move of a single *)
(* invocation can leave.                                                   *)
(***************************************************************************)
C22_LaterPlanWins ==
    \A i \in PlanIds, j \in PlanIds :
        ( /\ i < j /\ plans[j].over /\ plans[i].id = plans[j].id
          /\ plans[j].id \in DOMAIN states
          /\ \A k \in PlanIds : plans[k].pc = "done"
          /\ Quiet )
            => /\ states[plans[j].id].time = NoTime
               /\ Near(states[plans[j].id].pos, plans[j].target_p, 3)
               /\ Near(states[plans[j].id].ang, plans[j].target_a, 1)

(***************************************************************************)
(* C26: an idle receiver never blocks the bus.  The receiver thread holds  *)
(* the lock of the port only while a byte of a frame is pending: there is  *)
(* no state in which group_write waits for the lock in send_frame while    *)
(* the receiver holds it and waits for the first byte of a frame.          *)
(***************************************************************************)
C26_IdleReceiverReleases ==
    ~(mpc = "send" /\ mutex = "recv" /\ rpc = "wait" /\ rx = <<>>)

(***************************************************************************)
(* C27: no link-layer transaction blocks forever.  If the device goes      *)
(* silent, the transaction in progress does not depend on it to end: a     *)
(* sender waiting for the acknowledge of the frame it wrote can time out,  *)
(* and a receiver in the middle of an indication frame, with no byte left  *)
(* on the line, has a step of its own that ends the read and gives the     *)
(* lock back.                                                              *)
(***************************************************************************)
C27_NoTransactionBlocksForever ==
    /\ (mpc = "send_wait" /\ rx = <<>>) => ENABLED SendAckTimeout
    /\ (rpc \in {"hdr", "rest"} /\ rx = <<>>) => ENABLED RecvNext

(***************************************************************************)
(* C23: send ordering.  The group-write requests sent into the channel are *)
(* written to the line in exactly the order they were sent, one at a time: *)
(* the k-th group-write frame on the line carries the k-th request, the    *)
(* requests still in the channel are the following ones in order, and      *)
(* request n+1 is not written before request n has been acknowledged.      *)
(***************************************************************************)
IsRequestFrame(f) == Len(f) = 18 /\ f[1] = 104 /\ f[6] = KDRIVE_CEMI_L_DATA_REQ

RequestFrames == SelectSeq(tx, IsRequestFrame)

C23_SendOrdering ==
    /\ \A k \in 1..Len(RequestFrames) :
          /\ RequestFrames[k][12] * 256 + RequestFrames[k][13] = WriterReq(k)[1]
          /\ RequestFrames[k][16] = 128 + WriterReq(k)[2]
    /\ \A k \in 1..Len(kq) : kq[k] = WriterReq(sends + k)
    /\ Len(RequestFrames) <= Len(okSends) + 1
    /\ Len(RequestFrames) <= sends

C23_Witness ==
    /\ Len(RequestFrames) = 2
    /\ Len(okSends) = 2
    /\ Len(kq) = 1
    /\ RequestFrames[2][12] * 256 + RequestFrames[2][13] = 4523
    /\ mpc = "idle"

(***************************************************************************)
(* C24: bus token fairness.  Neither side is starved of the port: a        *)
(* group_write that waits for the lock in send_frame eventually gets it    *)
(* (or finds the receiver in the middle of a frame), although the receiver *)
(* loop takes the lock again on every iteration, and the receiver loop     *)
(* eventually gets it while the sender sends.                              *)
(***************************************************************************)
C24_BusTokenFairness ==
    /\ (mpc = "send" /\ step = RunStep)
           ~> (mpc # "send" \/ rpc \in {"hdr", "rest", "ack"})
    /\ (rpc = "loop") ~> (rpc # "loop")

(***************************************************************************)
(* C31: a full-move event for a blind that has an entry.  If a move was in *)
(* progress, shortened_move is applied for the time since the previous     *)
(* move start in the previous direction; then the move start is the        *)
(* event's timestamp and the last direction the event's direction.  After  *)
(* the event a move is in progress for that blind.                         *)
(***************************************************************************)
FullMoves == {data \in Telegrams : LET ev == on_telegram(data).ev
                                   IN  ev # NoEvent /\ ev.id # wind /\ ~ev.single}

C31_FullMoveOnEntry ==
    [][\A data \in FullMoves :
         LET ev == on_telegram(data).ev
         IN  (ev.id \in DOMAIN states /\ Telegram(data))
                 => LET e  == states[ev.id]
                        pa == IF e.time # NoTime
                              THEN shortened_move(e.time, e.dir, e.pos, e.ang)
                              ELSE <<e.pos, e.ang>>
                    IN  /\ ev.id \in DOMAIN states'
                        /\ states'[ev.id].time # NoTime
                        /\ states'[ev.id] = Entry(0, ev.dir, pa[1], pa[2])]_vars

(* blind c, 10 s into a move Down from (100, 7), is sent Up: the move Down *)
(* is recorded as 15 units of position and the whole turn of the slats     *)
C31_Witness ==
    /\ tlast.kind = "telegram"
    /\ tlast.ev = Event(Up, FALSE, BlindC)
    /\ tlast.moved = 10000
    /\ BlindC \in DOMAIN states
    /\ states[BlindC] = Entry(0, Up, 85, 0)

(***************************************************************************)
(* C32: bootstrap.  A full-move event for a blind with no entry creates    *)
(* the entry: a move in progress since the event, in the commanded         *)
(* direction, from the endpoint opposite to it, which is (100, 7) for a    *)
(* Down command and (0, 0) for an Up command.                              *)
(***************************************************************************)
C32_Bootstrap ==
    [][\A data \in FullMoves :
         LET ev == on_telegram(data).ev
         IN  (ev.id \notin DOMAIN states /\ Telegram(data))
                 => /\ DOMAIN states' = DOMAIN states \cup {ev.id}
                    /\ states'[ev.id] = IF ev.dir = Down
                                        THEN Entry(0, Down, 100, 7)
                                        ELSE Entry(0, Up, 0, 0)
                    /\ \A b \in DOMAIN states : states'[b] = states[b]]_vars

(* the first command the store ever saw sent blind c Down *)
C32_Witness ==
    /\ tlast.kind = "telegram"
    /\ tlast.ev = Event(Down, FALSE, BlindC)
    /\ moves = 1
    /\ DOMAIN states = {BlindC}
    /\ states[BlindC] = Entry(0, Down, 100, 7)

(***************************************************************************)
(* C33: shortened_move(elapsed, direction).  From FULL_TRAVEL_TIME on,     *)
(* position and angle are the direction's endpoint, (100, 7) for Up and    *)
(* (0, 0) for Down.  Below it the position changes by                      *)
(* floor(100 * elapsed / FULL_TRAVEL_TIME) and the angle by                *)
(* floor(7 * elapsed / FULL_TURN_TIME), the angle being at its endpoint    *)
(* from FULL_TURN_TIME on; the change is added for Up and subtracted for   *)
(* Down and the result is clamped to 0..100 and 0..7.                      *)
(***************************************************************************)
Clamp(x, lo, hi) == IF x < lo THEN lo ELSE IF x > hi THEN hi ELSE x

Stops == {data \in Telegrams : LET ev == on_telegram(data).ev
                               IN  ev # NoEvent /\ ev.id # wind}

C33_ShortenedMove ==
    [][\A data \in Stops :
         LET ev == on_telegram(data).ev
         IN  (Moving(states, ev.id) # NoTime /\ Telegram(data))
                 => LET e       == states[ev.id]
                        elapsed == e.time
                        sign    == IF e.dir = Up THEN 1 ELSE -1
                        dpos    == (100 * elapsed) \div FULL_TRAVEL_TIME
                        dang    == (7 * elapsed) \div FULL_TURN_TIME
                    IN  /\ states'[ev.id].pos =
                              IF elapsed >= FULL_TRAVEL_TIME
                              THEN (IF e.dir = Up THEN 100 ELSE 0)
                              ELSE Clamp(e.pos + sign * dpos, 0, 100)
                        /\ states'[ev.id].ang =
                              IF elapsed >= FULL_TURN_TIME
                              THEN (IF e.dir = Up THEN 7 ELSE 0)
                              ELSE Clamp(e.ang + sign * dang, 0, 7)]_vars

(* blind c is stopped 1.2 s into a move Down from (100, 7): one unit of    *)
(* position and three steps of angle                                       *)
C33_Witness ==
    /\ tlast.kind = "telegram"
    /\ tlast.ev.single
    /\ tlast.ev.id = BlindC
    /\ tlast.moved = 1200
    /\ BlindC \in DOMAIN states
    /\ states[BlindC] = Entry(NoTime, Down, 99, 4)

(***************************************************************************)
(* C34: one sweep changes exactly the entries whose move in progress       *)
(* started at least FULL_TRAVEL_TIME ago: their move start is cleared,     *)
(* their position and angle are the endpoint of their direction, their     *)
(* direction is kept.  Entries with no move in progress or a younger one   *)
(* are unchanged and no entry is created.                                  *)
(***************************************************************************)
C34_SweepFrame ==
    [][Sweep =>
         /\ DOMAIN states' = DOMAIN states
         /\ \A b \in DOMAIN states :
              LET e == states[b]
              IN  IF e.time # NoTime /\ e.time >= FULL_TRAVEL_TIME
                  THEN /\ states'[b] # e
                       /\ states'[b] = Entry(NoTime, e.dir,
                                             IF e.dir = Up THEN 100 ELSE 0,
                                             IF e.dir = Up THEN 7 ELSE 0)
                  ELSE states'[b] = e]_vars

(* after a wind alarm blind c was sent Down 60 s later; the sweep that     *)
(* follows the travel time of the alarm settles blind a and leaves blind c *)
(* moving                                                                  *)
C34_Witness ==
    /\ tlast.kind = "sweep"
    /\ BlindA \in DOMAIN states
    /\ BlindC \in DOMAIN states
    /\ states[BlindA] = Entry(NoTime, Up, 100, 7)
    /\ states[BlindC].dir = Down
    /\ states[BlindC].time # NoTime
    /\ states[BlindC].time < FULL_TRAVEL_TIME

(***************************************************************************)
(* C36: the planner's angle phase.  When the angle the planner holds       *)
(* differs from the target by D steps it sends a full move in the          *)
(* direction of the target, sleeps FULL_TURN_TIME * D / 7, a duration for  *)
(* which a move changes the estimated angle by exactly D steps, and then   *)
(* sends a single-step stop in the same direction; when the angle equals   *)
(* the target it sends one single-step stop and returns.                   *)
(***************************************************************************)
C36_AnglePhase ==
    [][\A i \in PlanIds :
         LET pl  == plans[i]
             D   == IF pl.a > pl.target_a THEN pl.a - pl.target_a
                    ELSE pl.target_a - pl.a
             dir == IF pl.a > pl.target_a THEN Down ELSE Up
         IN  /\ (pl.pc = "angle" /\ PlanAngle(i))
                 => IF D = 0
                    THEN /\ plans'[i].pc = "done"
                         /\ kq' = Append(kq, <<to_bus_addr(pl.id, TRUE), pl.dir>>)
                    ELSE /\ kq' = Append(kq, <<to_bus_addr(pl.id, FALSE), dir>>)
                         /\ plans'[i].dir = dir
                         /\ plans'[i].wake = (FULL_TURN_TIME * D) \div 7
                         /\ (7 * plans'[i].wake) \div FULL_TURN_TIME = D
             /\ (pl.pc = "angle_sleep" /\ PlanAngleWake(i))
                 => /\ plans'[i].pc = "done"
                    /\ kq' = Append(kq, <<to_bus_addr(pl.id, TRUE), pl.dir>>)]_vars

(***************************************************************************)
(* C39: a move-to request is idempotent on an idle blind.  If the target   *)
(* equals the entry of the blind and no move is in progress, then once the *)
(* plan has returned and the confirmations of its writes have been         *)
(* consumed, the position and the angle of the entry are what they were.   *)
(***************************************************************************)
(* the first request, served alone from a known entry at rest, returned    *)
(* after a single write: it skipped the position phase and found the angle *)
(* on target, so the entry it read was its target                          *)
C39_Case ==
    /\ plans[1].pc = "done"
    /\ ~plans[1].cold
    /\ Len(plans[1].sent) = 1
    /\ \A j \in PlanIds \ {1} : plans[j].pc = "idle"
    /\ Quiet

C39_Idempotent ==
    C39_Case => /\ plans[1].id \in DOMAIN states
                /\ states[plans[1].id].pos = plans[1].target_p
                /\ states[plans[1].id].ang = plans[1].target_a
                /\ states[plans[1].id].time = NoTime

(***************************************************************************)
(* C35: observation output.  After every mutation of the state store, by  *)
(* a move or step event, by a wind event or by a sweep, the new state of   *)
(* each blind whose entry changed is reported to the observer, and every   *)
(* report names one of the blinds a..h; after a wind event the new state   *)
(* of all eight blinds is reported.                                        *)
(***************************************************************************)
C35_Observation ==
    [][(silence' = 0 /\ ((\E data \in Telegrams : Telegram(data)) \/ Sweep))
          => /\ \A r \in tlast'.reports : r.letter \in 97..104 /\ ~r.panics
             /\ \A b \in DOMAIN states' :
                  (b \notin DOMAIN states \/ states'[b] # states[b])
                      => report(b, states') \in tlast'.reports]_vars

(***************************************************************************)
(* C37: the receive routine never indexes outside its buffer.  However the *)
(* serial reads split or coalesce the incoming bytes, a first read that    *)
(* returns more bytes than one frame included, read_and_ack_whole_frame    *)
(* returns a frame or an error and does not panic on a slice.              *)
(***************************************************************************)
C37_NoSliceBoundsPanic == rpc # "panicked"

(***************************************************************************)
(* C38: telegram handling is total.  For every telegram handed to          *)
(* on_telegram, telegrams shorter than 11 bytes and a group write to       *)
(* address 2 with a one-byte payload included, on_telegram returns and     *)
(* does not abort the reader task; a write to address 2 produces no        *)
(* estimator event.                                                        *)
(***************************************************************************)
C38_TelegramTotal ==
    /\ cpc # "panicked"
    /\ (cpc = "handled" /\ Len(cemi) >= 8 /\ get_dest(cemi).addr = 2)
           => cres.ev = NoEvent

(***************************************************************************)
(* C40: every valid data frame the receiver reads from the device is       *)
(* delivered upstream, whichever of the two device-to-host control bytes,  *)
(* 0xF3 or 0xD3, it carries: no valid indication is dropped by the link    *)
(* layer.                                                                  *)
(***************************************************************************)
C40_IndicationsDelivered ==
    \A i \in 1..Len(rxlog) :
        ( /\ rxlog[i].acked
          /\ from_bytes(rxlog[i].frame).ok
          /\ from_bytes(rxlog[i].frame).control \in {243, 211} )
            => rxlog[i].delivered

=============================================================================
